---- MODULE Spec2Model ----
(***************************************************************************)
(* The snapd daemon's asynchronous API gateway (daemon/api.go), the        *)
(* operation dispatcher behind it, and the state/change/task engine the    *)
(* handlers drive.  The engine (overlord/state) is modelled from the       *)
(* design document; the handlers are modelled from daemon/api.go.          *)
(***************************************************************************)
EXTENDS Integers, Sequences, FiniteSets, TLC

\* ------------------------------------------------------------ bounds
MaxChanges == 1      \* Changes the model lets the API create, every operation allowed
MaxEngineChanges == 2 \* Changes the model lets the API create, installs only
MaxTasks == 3        \* Tasks the model lets the builders create
MaxSetSize == 2      \* Tasks in one task-set a builder returns

VARIABLES
    changes,       \* state: the Changes, a sequence; a Change's id is its index
    tasks,         \* state: the Tasks, a sequence; a Task's id is its index
    inflight,      \* Tasks whose handler is running, outside the state lock
    lock,          \* the state lock: "free", or "api" while a request holds it
    ensureBefore,  \* an EnsureBefore(0) wake-up is pending
    forceDevMode,  \* release.ReleaseInfo.ForceDevMode() of this platform
    req,           \* the request being answered, NoReq when there is none
    resp,          \* the Response its handler returns
    db,            \* the assertion database: the revision stored under each key
    users,         \* state: the user records, in the order auth.NewUser made them
    procs,         \* the lock and I/O operations each running handler has ahead
    owner          \* who holds the state lock when handlers run side by side

\* the part of the state the assertion, login and locking handlers use
auxVars == <<db, users, procs, owner>>

vars == <<changes, tasks, inflight, lock, ensureBefore, forceDevMode,
          req, resp, db, users, procs, owner>>

\* ------------------------------------------------------------ status algebra
TaskStatuses == {"Do", "Doing", "Done", "Error", "Hold", "Abort", "Undo", "Undoing", "Undone"}

Terminal == {"Done", "Undone", "Error", "Hold"}

\* Status.Ready()
StatusReady(s) == s \in Terminal

TasksOfIn(ts, c) == {t \in DOMAIN ts : ts[t].chg = c}

HaltTasksIn(ts, t) == {h \in DOMAIN ts : t \in ts[h].wait}

\* Change.Status(): derived from the tasks; a Change without tasks has the
\* status SetStatus gave it.
ChangeStatusIn(chs, ts, c) ==
    LET ss == {ts[t].status : t \in TasksOfIn(ts, c)} IN
    IF ss = {} THEN chs[c].status
    ELSE IF ss \subseteq Terminal
         THEN IF "Error" \in ss THEN "Error"
              ELSE IF "Undone" \in ss THEN "Undone"
              ELSE IF "Done" \in ss THEN "Done"
              ELSE "Hold"
    ELSE IF ss \cap {"Doing", "Undoing"} # {} THEN "Doing"
    ELSE IF "Abort" \in ss THEN "Abort"
    ELSE IF "Undo" \in ss THEN "Undo"
    ELSE "Do"

ChangeIds == 1..Len(changes)
TaskIds == 1..Len(tasks)
TasksOf(c) == TasksOfIn(tasks, c)
HaltTasks(t) == HaltTasksIn(tasks, t)
ChangeStatus(c) == ChangeStatusIn(changes, tasks, c)

\* Change.Abort(): every non-terminal task of the Change is marked Abort.
ChangeAbort(ts, c) ==
    [t \in DOMAIN ts |->
        IF ts[t].chg = c /\ ts[t].status \notin Terminal
        THEN [ts[t] EXCEPT !.status = "Abort"]
        ELSE ts[t]]

\* Change.SetStatus(s): the explicit status of the Change, and the status of
\* every task it has.
ChangeSetStatus(chs, c, s) == [chs EXCEPT ![c].status = s]

TasksSetStatus(ts, c, s) ==
    [t \in DOMAIN ts |-> IF ts[t].chg = c THEN [ts[t] EXCEPT !.status = s] ELSE ts[t]]

\* ------------------------------------------------------------ Ensure loop
\* The tick's treatment of aborted Changes: the Done tasks are scheduled for
\* undo, the tasks marked Abort are put on Hold.
AfterAbort(ts) ==
    [t \in DOMAIN ts |->
        IF ts[t].chg # 0
           /\ \E u \in DOMAIN ts : ts[u].chg = ts[t].chg /\ ts[u].status = "Abort"
        THEN IF ts[t].status = "Done" THEN [ts[t] EXCEPT !.status = "Undo"]
             ELSE IF ts[t].status = "Abort" THEN [ts[t] EXCEPT !.status = "Hold"]
             ELSE ts[t]
        ELSE ts[t]]

\* Faulty variant of CanDo: a task starts without looking at its waitTasks.
CanDoUnordered(ts, t) == ts[t].status = "Do"

\* do: status Do and every waitTask Done.
CanDo(ts, t) ==
    /\ ts[t].status = "Do"
    /\ \A w \in ts[t].wait : ts[w].status = "Done"

\* undo, in reverse dependency order: status Undo and every task that waited
\* on this one has been undone or never ran.
CanUndo(ts, t) ==
    /\ ts[t].status = "Undo"
    /\ \A h \in HaltTasksIn(ts, t) : ts[h].status \in {"Undone", "Hold", "Error"}

\* A task the tick dispatches: runnable, or left Doing/Undoing by a retry.
Runnable(ts, t) ==
    /\ ts[t].chg # 0
    /\ \/ CanDo(ts, t)
       \/ CanUndo(ts, t)
       \/ ts[t].status \in {"Doing", "Undoing"}

Dispatch(ts) ==
    [t \in DOMAIN ts |->
        IF ts[t].chg # 0 /\ CanDo(ts, t) THEN [ts[t] EXCEPT !.status = "Doing"]
        ELSE IF ts[t].chg # 0 /\ CanUndo(ts, t) THEN [ts[t] EXCEPT !.status = "Undoing"]
        ELSE ts[t]]

\* One tick of the single Ensure worker, steps 1-3: under the state lock it
\* collects the runnable tasks and starts their handlers.  The previous
\* tick's results have all been applied (step 4) before the next one.
EnsureTick ==
    /\ lock = "free"
    /\ inflight = {}
    /\ LET a == AfterAbort(tasks)
           run == {t \in DOMAIN a : Runnable(a, t)}
       IN /\ (run # {} \/ a # tasks \/ ensureBefore)
          /\ tasks' = Dispatch(a)
          /\ inflight' = run
    /\ ensureBefore' = FALSE
    /\ UNCHANGED <<changes, lock, forceDevMode, req, resp, auxVars>>

\* Faulty variant of OnError: the tasks that have not started are left in Do.
OnErrorNoHold(ts, t) ==
    [u \in DOMAIN ts |->
        IF u = t THEN [ts[u] EXCEPT !.status = "Error"]
        ELSE IF ts[u].chg # ts[t].chg \/ ts[t].status # "Doing" THEN ts[u]
        ELSE IF ts[u].status = "Done" THEN [ts[u] EXCEPT !.status = "Undo"]
        ELSE IF ts[u].status = "Doing" THEN [ts[u] EXCEPT !.status = "Abort"]
        ELSE ts[u]]

\* A terminal error of a do handler: the task is Error, the tasks of the
\* Change that have not started are put on Hold, the completed ones are
\* scheduled for undo, the ones running are told to stop.
OnError(ts, t) ==
    [u \in DOMAIN ts |->
        IF u = t THEN [ts[u] EXCEPT !.status = "Error"]
        ELSE IF ts[u].chg # ts[t].chg \/ ts[t].status # "Doing" THEN ts[u]
        ELSE IF ts[u].status = "Do" THEN [ts[u] EXCEPT !.status = "Hold"]
        ELSE IF ts[u].status = "Done" THEN [ts[u] EXCEPT !.status = "Undo"]
        ELSE IF ts[u].status = "Doing" THEN [ts[u] EXCEPT !.status = "Abort"]
        ELSE ts[u]]

\* Step 4 of the tick, for one handler: it returned without error.
HandlerOk(t) ==
    /\ lock = "free"
    /\ t \in inflight
    /\ tasks[t].status \in {"Doing", "Undoing"}
    /\ tasks' = [tasks EXCEPT ![t].status = IF @ = "Doing" THEN "Done" ELSE "Undone"]
    /\ inflight' = inflight \ {t}
    /\ UNCHANGED <<changes, lock, ensureBefore, forceDevMode, req, resp, auxVars>>

\* It returned the retry signal: the task stays Doing (Undoing), re-runnable.
HandlerRetry(t) ==
    /\ lock = "free"
    /\ t \in inflight
    /\ tasks[t].status \in {"Doing", "Undoing"}
    /\ inflight' = inflight \ {t}
    /\ UNCHANGED <<changes, tasks, lock, ensureBefore, forceDevMode, req, resp, auxVars>>

\* It returned a terminal error.
HandlerError(t) ==
    /\ lock = "free"
    /\ t \in inflight
    /\ tasks[t].status \in {"Doing", "Undoing"}
    /\ tasks' = OnError(tasks, t)
    /\ inflight' = inflight \ {t}
    /\ UNCHANGED <<changes, lock, ensureBefore, forceDevMode, req, resp, auxVars>>

\* The handler of a task marked Abort saw the flag and returned: the task
\* stays Abort until the next tick puts it on Hold.
HandlerCancelled(t) ==
    /\ lock = "free"
    /\ t \in inflight
    /\ tasks[t].status = "Abort"
    /\ inflight' = inflight \ {t}
    /\ UNCHANGED <<changes, tasks, lock, ensureBefore, forceDevMode, req, resp, auxVars>>

\* ------------------------------------------------------------ requests, responses
\* A message is the sequence of its words; seq contains sub as a run of
\* consecutive words.
Contains(seq, sub) ==
    \E i \in 0..(Len(seq) - Len(sub)) :
        \A j \in 1..Len(sub) : seq[i + j] = sub[j]

NoReq ==
    [op |-> "none", action |-> "", name |-> "", devmode |-> FALSE, jailmode |-> FALSE,
     channel |-> "", revision |-> FALSE, nsnaps |-> 0, id |-> 0, bodyOK |-> TRUE,
     ctype |-> "", dangerous |-> FALSE, snapPath |-> FALSE, file |-> FALSE]

NoInfo == [id |-> 0, status |-> "", ready |-> FALSE, tasks |-> <<>>]

\* calls: the calls the handler made into the state engine and the builders
NoResp ==
    [type |-> "none", status |-> 0, msg |-> <<>>, change |-> 0, info |-> NoInfo,
     calls |-> {}]

\* sideInfo: for DeriveSideInfo what it returned ("signed" or "none"), for
\* InstallPath the side-info it was handed ("signed" or "unsigned"); err: for
\* snapstateGet the error it returned; args: for NewChange its kind and summary
Call(fn) == [fn |-> fn, snap |-> "", flags |-> {}, sideInfo |-> "", err |-> "", args |-> <<>>]

\* State.NewChange(kind, summary), as the handler called it
NewChangeCall(kind, summary) == [Call("NewChange") EXCEPT !.args = <<kind, summary>>]

StatusOK == 200
StatusAccepted == 202
StatusBadRequest == 400
StatusNotFound == 404
StatusInternalServerError == 500

SyncResponse(info) == [NoResp EXCEPT !.type = "sync", !.status = StatusOK, !.info = info]

AsyncResponse(chg) == [NoResp EXCEPT !.type = "async", !.status = StatusAccepted, !.change = chg]

ErrorResponse(status, msg) == [NoResp EXCEPT !.type = "error", !.status = status, !.msg = msg]

BadRequest(msg) == ErrorResponse(StatusBadRequest, msg)
NotFound(msg) == ErrorResponse(StatusNotFound, msg)
InternalError(msg) == ErrorResponse(StatusInternalServerError, msg)

\* Faulty variant of change2changeInfo: ready is taken to mean Done.
change2changeInfoReadyIsDone(chs, ts, c) ==
    LET status == ChangeStatusIn(chs, ts, c) IN
    [id |-> c, status |-> status, ready |-> (status = "Done"),
     tasks |-> [t \in TasksOfIn(ts, c) |-> ts[t].status]]

\* change2changeInfo
change2changeInfo(chs, ts, c) ==
    LET status == ChangeStatusIn(chs, ts, c) IN
    [id |-> c, status |-> status, ready |-> StatusReady(status),
     tasks |-> [t \in TasksOfIn(ts, c) |-> ts[t].status]]

\* ------------------------------------------------------------ mode flags
errModeConflict == <<"cannot", "use", "devmode", "and", "jailmode", "flags", "together">>
errNoJailMode == <<"this", "system", "cannot", "honour", "the", "jailmode", "flag">>
errNothingToInstall == <<"nothing", "to", "install">>
errBuilder == <<"snapstate", "error">>
noErr == <<>>

\* Faulty variant of modeFlags: the two flags are not checked against each other.
modeFlagsNoConflict(devMode, jailMode) ==
    IF jailMode /\ forceDevMode THEN [flags |-> {}, err |-> errNoJailMode]
    ELSE [flags |-> (IF jailMode THEN {"JailMode"} ELSE {})
                    \cup (IF devMode \/ forceDevMode THEN {"DevMode"} ELSE {}),
          err |-> noErr]

\* Faulty variant of modeFlags: the platform's force-devmode is not consulted.
modeFlagsNoForce(devMode, jailMode) ==
    IF jailMode /\ devMode THEN [flags |-> {}, err |-> errModeConflict]
    ELSE [flags |-> (IF jailMode THEN {"JailMode"} ELSE {})
                    \cup (IF devMode THEN {"DevMode"} ELSE {}),
          err |-> noErr]

\* Faulty variant of modeFlags: jailmode is not refused on a platform that
\* forces devmode.
modeFlagsForcedJail(devMode, jailMode) ==
    IF jailMode /\ devMode THEN [flags |-> {}, err |-> errModeConflict]
    ELSE [flags |-> (IF jailMode THEN {"JailMode"} ELSE {})
                    \cup (IF devMode \/ forceDevMode THEN {"DevMode"} ELSE {}),
          err |-> noErr]

modeFlags(devMode, jailMode) ==
    IF jailMode /\ forceDevMode THEN [flags |-> {}, err |-> errNoJailMode]
    ELSE IF jailMode /\ devMode THEN [flags |-> {}, err |-> errModeConflict]
    ELSE [flags |-> (IF jailMode THEN {"JailMode"} ELSE {})
                    \cup (IF devMode \/ forceDevMode THEN {"DevMode"} ELSE {}),
          err |-> noErr]

\* ------------------------------------------------------------ task-set builders
\* What a snapstate builder returns: an error (b = 0), or a task-set of b new
\* tasks in status Do, each waiting on the one before, not yet part of any
\* Change (chg = 0).  Tasks that never reach a Change are unreachable from the
\* state and are dropped with the failed request.
NewTasks(base, snap, b) ==
    [i \in 1..b |->
        [chg |-> 0, status |-> "Do", snap |-> snap,
         wait |-> IF i = 1 THEN {} ELSE {base + i - 1}]]

Build(ts, builder, snap, flags, b) ==
    LET call == [Call(builder) EXCEPT !.snap = snap, !.flags = flags] IN
    IF b = 0
    THEN [err |-> errBuilder, set |-> {}, tasks |-> ts, calls |-> {call}]
    ELSE [err |-> noErr, set |-> (Len(ts) + 1)..(Len(ts) + b),
          tasks |-> ts \o NewTasks(Len(ts), snap, b), calls |-> {call}]

\* TaskSet.WaitAll(other): every task of set waits on every task of other.
WaitAll(ts, set, other) ==
    [t \in DOMAIN ts |->
        IF t \in set THEN [ts[t] EXCEPT !.wait = @ \cup other] ELSE ts[t]]

\* Change.AddAll(ts)
AddAll(ts, c, set) ==
    [t \in DOMAIN ts |-> IF t \in set THEN [ts[t] EXCEPT !.chg = c] ELSE ts[t]]

\* State.NewChange(kind, summary)
StateNewChange(chs, kind, summary) ==
    Append(chs, [status |-> "Hold", data |-> <<>>])

\* Change.Set(key, value)
ChangeSet(chs, c, key, value) == [chs EXCEPT ![c].data = (key :> value) @@ @]

\* chg.Set("api-data", ...): the entry is handed back by change2changeInfo as
\* the opaque "data" of the Change and read by nothing else; the model keeps
\* no copy of it.
SetApiData(chs, c, value) == chs

SetUnion(tsets) == UNION {tsets[i] : i \in DOMAIN tsets}

\* Faulty variant of newChange: only the first task-set is added.
newChangeFirstSet(chs, ts, kind, summary, tsets, snapNames, hasNames) ==
    LET c == Len(chs) + 1
        chs1 == StateNewChange(chs, kind, summary)
    IN [id |-> c,
        changes |-> IF hasNames THEN ChangeSet(chs1, c, "snap-names", snapNames) ELSE chs1,
        tasks |-> AddAll(ts, c, tsets[1])]

\* Faulty variant of newChange: the task-sets are never added.
newChangeNoTasks(chs, ts, kind, summary, tsets, snapNames, hasNames) ==
    LET c == Len(chs) + 1
        chs1 == StateNewChange(chs, kind, summary)
    IN [id |-> c,
        changes |-> IF hasNames THEN ChangeSet(chs1, c, "snap-names", snapNames) ELSE chs1,
        tasks |-> ts]

\* newChange: a new Change holding every task of tsets
newChange(chs, ts, kind, summary, tsets, snapNames, hasNames) ==
    LET c == Len(chs) + 1
        chs1 == StateNewChange(chs, kind, summary)
    IN [id |-> c,
        changes |-> IF hasNames THEN ChangeSet(chs1, c, "snap-names", snapNames) ELSE chs1,
        tasks |-> AddAll(ts, c, SetUnion(tsets))]

\* ------------------------------------------------------------ bootstrap
GetOutcomes == {"ErrNoState", "nil", "error"}
BuildOutcomes == 0..MaxSetSize
errSnapstateGet == <<"snapstate", "get", "error">>

\* snapstateGet(st, "ubuntu-core", &ss) and the error it returned
Get(g) == [Call("snapstateGet") EXCEPT !.snap = "ubuntu-core", !.err = g]

ensureUbuntuCore(ts, targetSnap, g, b0) ==
    IF targetSnap = "ubuntu-core"
    THEN [err |-> errNothingToInstall, set |-> {}, tasks |-> ts, calls |-> {}]
    ELSE IF g # "ErrNoState"
    THEN [err |-> IF g = "nil" THEN noErr ELSE errSnapstateGet,
          set |-> {}, tasks |-> ts, calls |-> {Get(g)}]
    ELSE [Build(ts, "Install", "ubuntu-core", {}, b0)
          EXCEPT !.calls = @ \cup {Get(g)}]

\* Faulty variant of withEnsureUbuntuCore: ts.WaitAll(ubuCoreTs) is left out.
withEnsureUbuntuCoreNoWait(ts, targetSnap, g, b0, builder, flags, b1) ==
    LET u == ensureUbuntuCore(ts, targetSnap, g, b0) IN
    IF u.err # noErr /\ u.err # errNothingToInstall
    THEN [err |-> u.err, tsets |-> <<>>, tasks |-> u.tasks, calls |-> u.calls]
    ELSE LET i == Build(u.tasks, builder, targetSnap, flags, b1) IN
         IF i.err # noErr
         THEN [err |-> i.err, tsets |-> <<>>, tasks |-> i.tasks, calls |-> u.calls \cup i.calls]
         ELSE IF u.set # {}
         THEN [err |-> noErr, tsets |-> <<u.set, i.set>>,
               tasks |-> i.tasks, calls |-> u.calls \cup i.calls]
         ELSE [err |-> noErr, tsets |-> <<i.set>>, tasks |-> i.tasks,
               calls |-> u.calls \cup i.calls]

\* Faulty variant of withEnsureUbuntuCore: install() is called before the
\* error of ensureUbuntuCore is looked at.
withEnsureUbuntuCoreInstallFirst(ts, targetSnap, g, b0, builder, flags, b1) ==
    LET u == ensureUbuntuCore(ts, targetSnap, g, b0)
        i == Build(u.tasks, builder, targetSnap, flags, b1)
    IN IF u.err # noErr /\ u.err # errNothingToInstall
       THEN [err |-> u.err, tsets |-> <<>>, tasks |-> u.tasks, calls |-> u.calls \cup i.calls]
       ELSE IF i.err # noErr
       THEN [err |-> i.err, tsets |-> <<>>, tasks |-> i.tasks, calls |-> u.calls \cup i.calls]
       ELSE IF u.set # {}
       THEN [err |-> noErr, tsets |-> <<u.set, i.set>>,
             tasks |-> WaitAll(i.tasks, i.set, u.set), calls |-> u.calls \cup i.calls]
       ELSE [err |-> noErr, tsets |-> <<i.set>>, tasks |-> i.tasks,
             calls |-> u.calls \cup i.calls]

\* install: the call the caller hands over, here the builder and the flags
\* it is called with, and b1, what it returns.
withEnsureUbuntuCore(ts, targetSnap, g, b0, builder, flags, b1) ==
    LET u == ensureUbuntuCore(ts, targetSnap, g, b0) IN
    IF u.err # noErr /\ u.err # errNothingToInstall
    THEN [err |-> u.err, tsets |-> <<>>, tasks |-> u.tasks, calls |-> u.calls]
    ELSE LET i == Build(u.tasks, builder, targetSnap, flags, b1) IN
         IF i.err # noErr
         THEN [err |-> i.err, tsets |-> <<>>, tasks |-> i.tasks, calls |-> u.calls \cup i.calls]
         ELSE IF u.set # {}
         THEN [err |-> noErr, tsets |-> <<u.set, i.set>>,
               tasks |-> WaitAll(i.tasks, i.set, u.set), calls |-> u.calls \cup i.calls]
         ELSE [err |-> noErr, tsets |-> <<i.set>>, tasks |-> i.tasks,
               calls |-> u.calls \cup i.calls]

\* ------------------------------------------------------------ single-snap operations
Names == {"foo", "ubuntu-core"}
SnapActions == {"install", "refresh", "remove", "revert", "enable", "disable"}

\* the kind of the Change, action + "-snap", as its two parts
Kind(action) == <<action, "snap">>

\* the result of an operation that builds one task-set
One(r, calls) ==
    [err |-> r.err, tsets |-> IF r.err = noErr THEN <<r.set>> ELSE <<>>,
     tasks |-> r.tasks, calls |-> r.calls \cup calls]

Failed(ts, err, calls) == [err |-> err, tsets |-> <<>>, tasks |-> ts, calls |-> calls]

snapInstall(ts, inst, g, d, b0, b1) ==
    LET f == modeFlags(inst.devmode, inst.jailmode) IN
    IF f.err # noErr THEN Failed(ts, f.err, {})
    ELSE withEnsureUbuntuCore(ts, inst.name, g, b0, "Install", f.flags, b1)

snapUpdate(ts, inst, g, d, b0, b1) ==
    LET f == modeFlags(inst.devmode, inst.jailmode) IN
    IF f.err # noErr THEN Failed(ts, f.err, {})
    ELSE IF ~d THEN Failed(ts, <<"refresh", "declarations", "error">>,
                           {Call("RefreshSnapDeclarations")})
    ELSE One(Build(ts, "Update", inst.name, f.flags, b1), {Call("RefreshSnapDeclarations")})

snapRemove(ts, inst, g, d, b0, b1) == One(Build(ts, "Remove", inst.name, {}, b1), {})

snapRevert(ts, inst, g, d, b0, b1) ==
    LET f == modeFlags(inst.devmode, inst.jailmode) IN
    IF f.err # noErr THEN Failed(ts, f.err, {})
    ELSE One(Build(ts, IF inst.revision THEN "RevertToRevision" ELSE "Revert",
                   inst.name, f.flags, b1), {})

snapEnable(ts, inst, g, d, b0, b1) ==
    IF inst.revision THEN Failed(ts, <<"enable", "takes", "no", "revision">>, {})
    ELSE One(Build(ts, "Enable", inst.name, {}, b1), {})

snapDisable(ts, inst, g, d, b0, b1) ==
    IF inst.revision THEN Failed(ts, <<"disable", "takes", "no", "revision">>, {})
    ELSE One(Build(ts, "Disable", inst.name, {}, b1), {})

\* snapInstructionDispTable, applied
dispatch(ts, inst, g, d, b0, b1) ==
    CASE inst.action = "install" -> snapInstall(ts, inst, g, d, b0, b1)
      [] inst.action = "refresh" -> snapUpdate(ts, inst, g, d, b0, b1)
      [] inst.action = "remove" -> snapRemove(ts, inst, g, d, b0, b1)
      [] inst.action = "revert" -> snapRevert(ts, inst, g, d, b0, b1)
      [] inst.action = "enable" -> snapEnable(ts, inst, g, d, b0, b1)
      [] inst.action = "disable" -> snapDisable(ts, inst, g, d, b0, b1)

Summary(verb, inst) ==
    IF inst.channel # "stable" /\ inst.channel # ""
    THEN <<verb, inst.name, "snap", "from", inst.channel, "channel">>
    ELSE <<verb, inst.name, "snap">>

\* What a handler leaves when it returns: the state, whether it called
\* EnsureBefore(0), and the Response.
Out(chs, ts, ensure, r) == [changes |-> chs, tasks |-> ts, ensure |-> ensure, resp |-> r]

decodeError == <<"cannot", "decode", "request", "body", "into", "snap", "instruction">>

\* postSnap, before state.Lock(): NoResp lets the request through
postSnapPre(inst) == IF inst.bodyOK THEN NoResp ELSE BadRequest(decodeError)

\* postSnap, from state.Lock() on
postSnap(chs, ts, inst, g, d, b0, b1) ==
    IF inst.action \notin SnapActions
    THEN Out(chs, ts, FALSE, BadRequest(<<"unknown", "action", inst.action>>))
    ELSE LET r == dispatch(ts, inst, g, d, b0, b1) IN
         IF r.err # noErr
         THEN Out(chs, ts, FALSE,
                  [BadRequest(<<"cannot", inst.action, inst.name>> \o r.err)
                   EXCEPT !.calls = r.calls])
         ELSE LET n == newChange(chs, r.tasks, Kind(inst.action),
                                 Summary(inst.action, inst), r.tsets, <<inst.name>>, TRUE)
              IN Out(n.changes, n.tasks, TRUE,
                     [AsyncResponse(n.id)
                      EXCEPT !.calls = r.calls \cup {NewChangeCall(Kind(inst.action),
                                                                   Summary(inst.action, inst)),
                                                     Call("EnsureBefore")}])

\* ------------------------------------------------------------ multi-snap operations
\* the names of n snaps
SnapList(n) == [i \in 1..n |-> <<"snap", i>>]

\* What snapstate.UpdateMany/InstallMany/RemoveMany return: an error, or the
\* names affected and one task-set of one task for each of them.
BuildMany(ts, builder, m) ==
    LET call == Call(builder) IN
    IF m.err
    THEN [err |-> errBuilder, affected |-> <<>>, tsets |-> <<>>, tasks |-> ts, calls |-> {call}]
    ELSE [err |-> noErr, affected |-> SnapList(m.n),
          tsets |-> [i \in 1..m.n |-> {Len(ts) + i}],
          tasks |-> ts \o [i \in 1..m.n |->
                               [chg |-> 0, status |-> "Do", snap |-> SnapList(m.n)[i],
                                wait |-> {}]],
          calls |-> {call}]

FailedMany(ts, err, calls) ==
    [err |-> err, affected |-> <<>>, tsets |-> <<>>, tasks |-> ts, calls |-> calls]

snapUpdateMany(ts, inst, d, m) ==
    IF ~d THEN FailedMany(ts, <<"refresh", "declarations", "error">>,
                          {Call("RefreshSnapDeclarations")})
    ELSE LET r == BuildMany(ts, "UpdateMany", m) IN
         [r EXCEPT !.calls = @ \cup {Call("RefreshSnapDeclarations")}]

snapInstallMany(ts, inst, d, m) ==
    LET r == BuildMany(ts, "InstallMany", m) IN
    IF r.err # noErr THEN r
    ELSE IF inst.nsnaps = 0
    THEN FailedMany(ts, <<"cannot", "install", "zero", "snaps">>, r.calls)
    ELSE r

snapRemoveMany(ts, inst, d, m) ==
    LET r == BuildMany(ts, "RemoveMany", m) IN
    IF r.err # noErr THEN r
    ELSE IF inst.nsnaps = 0
    THEN FailedMany(ts, <<"cannot", "remove", "zero", "snaps">>, r.calls)
    ELSE r

\* Faulty variant of snapsOpPre: the per-snap options are let through.
snapsOpPreNoOptionCheck(inst) ==
    IF ~inst.bodyOK THEN BadRequest(decodeError) ELSE NoResp

\* snapsOp, before st.Lock()
snapsOpPre(inst) ==
    IF ~inst.bodyOK THEN BadRequest(decodeError)
    ELSE IF inst.channel # "" \/ inst.revision \/ inst.devmode \/ inst.jailmode
    THEN BadRequest(<<"unsupported", "option", "provided", "for", "multi-snap", "operation">>)
    ELSE NoResp

\* snapsOp, from st.Lock() on
snapsOp(chs, ts, inst, d, m) ==
    IF inst.action \notin {"refresh", "install", "remove"}
    THEN Out(chs, ts, FALSE,
             BadRequest(<<"unsupported", "multi-snap", "operation", inst.action>>))
    ELSE LET r == CASE inst.action = "refresh" -> snapUpdateMany(ts, inst, d, m)
                    [] inst.action = "install" -> snapInstallMany(ts, inst, d, m)
                    [] inst.action = "remove" -> snapRemoveMany(ts, inst, d, m)
         IN IF r.err # noErr
            THEN Out(chs, ts, FALSE,
                     [InternalError(<<"cannot", inst.action>> \o r.err) EXCEPT !.calls = r.calls])
            ELSE IF Len(r.tsets) = 0
            THEN LET c == Len(chs) + 1
                     chs1 == ChangeSetStatus(StateNewChange(chs, Kind(inst.action), <<>>),
                                             c, "Done")
                 IN Out(SetApiData(chs1, c, r.affected),
                        TasksSetStatus(r.tasks, c, "Done"), FALSE,
                        [AsyncResponse(c)
                         EXCEPT !.calls = r.calls \cup {NewChangeCall(Kind(inst.action), <<>>),
                                                        Call("SetStatus")}])
            ELSE LET n == newChange(chs, r.tasks, Kind(inst.action), <<>>, r.tsets,
                                    r.affected, TRUE)
                 IN Out(SetApiData(n.changes, n.id, r.affected), n.tasks, TRUE,
                        [AsyncResponse(n.id)
                         EXCEPT !.calls = r.calls \cup {NewChangeCall(Kind(inst.action), <<>>),
                                                        Call("EnsureBefore")}])

\* ------------------------------------------------------------ sideload and try
\* trySnap, from st.Lock() on.  e: what the file system and the builder answer.
trySnap(chs, ts, r, flags, e) ==
    IF ~e.abs THEN Out(chs, ts, FALSE, BadRequest(<<"cannot", "try", "need", "an", "absolute", "path">>))
    ELSE IF ~e.dir THEN Out(chs, ts, FALSE, BadRequest(<<"cannot", "try", "not", "a", "snap", "directory">>))
    ELSE IF ~e.info THEN Out(chs, ts, FALSE, BadRequest(<<"cannot", "read", "snap", "info">>))
    ELSE LET b == Build(ts, "TryPath", "foo", flags, e.b1) IN
         IF b.err # noErr
         THEN Out(chs, ts, FALSE, [BadRequest(<<"cannot", "try">> \o b.err) EXCEPT !.calls = b.calls])
         ELSE LET n == newChange(chs, b.tasks, "try-snap", <<"Try", "foo", "snap">>,
                                 <<b.set>>, <<"foo">>, TRUE)
              IN Out(SetApiData(n.changes, n.id, <<"foo">>), n.tasks, TRUE,
                     [AsyncResponse(n.id)
                      EXCEPT !.calls = b.calls \cup {NewChangeCall("try-snap",
                                                                   <<"Try", "foo", "snap">>),
                                                     Call("EnsureBefore")}])

\* postSnaps for a multipart body, before st.Lock()
postSnapsPre(r, e) ==
    IF r.ctype # "multipart/form-data"
    THEN BadRequest(<<"unknown", "content", "type">>)
    ELSE IF e.parse = "mediatype" THEN BadRequest(<<"cannot", "parse", "POST", "body">>)
    ELSE IF e.parse = "form" THEN BadRequest(<<"cannot", "read", "POST", "form">>)
    ELSE LET f == modeFlags(r.devmode, r.jailmode) IN
         IF f.err # noErr THEN BadRequest(f.err)
         ELSE IF r.action = "try"
         THEN IF ~r.snapPath THEN BadRequest(<<"need", "snap-path", "value", "in", "form">>)
              ELSE NoResp
         ELSE IF r.file /\ e.io = "open"
         THEN BadRequest(<<"cannot", "open", "uploaded", "snap", "file">>)
         ELSE IF ~r.file
         THEN BadRequest(<<"cannot", "find", "snap", "file", "field">>)
         ELSE IF e.io = "tempfile" THEN InternalError(<<"cannot", "create", "temporary", "file">>)
         ELSE IF e.io = "copy"
         THEN InternalError(<<"cannot", "copy", "request", "into", "temporary", "file">>)
         ELSE NoResp

\* snapasserts.DeriveSideInfo(tempPath, db) and what it returned
Derive(result) == [Call("DeriveSideInfo") EXCEPT !.sideInfo = result]

\* The side-info snapstateInstallPath is handed.
WithSideInfo(calls, si) ==
    {IF c.fn = "InstallPath" THEN [c EXCEPT !.sideInfo = si] ELSE c : c \in calls}

\* Faulty variant of sideload: missing signatures are accepted without the
\* devmode flag as well.
sideloadUnsignedOK(chs, ts, r, flags, e) ==
    IF ~r.dangerous /\ e.derive = "error"
    THEN Out(chs, ts, FALSE, [BadRequest(<<"derive", "error">>) EXCEPT !.calls = {Derive("none")}])
    ELSE LET derived == ~r.dangerous /\ e.derive = "nil"
             calls0 == IF r.dangerous THEN {}
                       ELSE {Derive(IF derived THEN "signed" ELSE "none")}
         IN IF ~derived /\ ~e.info
            THEN Out(chs, ts, FALSE,
                     [InternalError(<<"cannot", "read", "snap", "file">>)
                      EXCEPT !.calls = calls0 \cup {Call("unsafeReadSnapInfo")}])
            ELSE LET calls1 == IF derived THEN calls0
                               ELSE calls0 \cup {Call("unsafeReadSnapInfo")}
                     w0 == withEnsureUbuntuCore(ts, "foo", e.g, e.b0, "InstallPath", flags, e.b1)
                     w == [w0 EXCEPT !.calls = WithSideInfo(@, IF derived THEN "signed" ELSE "unsigned")]
                 IN IF w.err # noErr
                    THEN Out(chs, ts, FALSE,
                             [InternalError(<<"cannot", "install", "snap", "file">> \o w.err)
                              EXCEPT !.calls = calls1 \cup w.calls])
                    ELSE LET n == newChange(chs, w.tasks, "install-snap",
                                            <<"Install", "foo", "snap", "from", "file">>,
                                            w.tsets, <<"foo">>, TRUE)
                         IN Out(SetApiData(n.changes, n.id, <<"foo">>), n.tasks, TRUE,
                                [AsyncResponse(n.id)
                                 EXCEPT !.calls = calls1 \cup w.calls
                                                  \cup {NewChangeCall("install-snap",
                                                            <<"Install", "foo", "snap", "from", "file">>),
                                                        Call("EnsureBefore")}])

\* postSnaps for a snap file upload, from st.Lock() on
sideload(chs, ts, r, flags, e) ==
    IF ~r.dangerous /\ e.derive = "error"
    THEN Out(chs, ts, FALSE, [BadRequest(<<"derive", "error">>) EXCEPT !.calls = {Derive("none")}])
    ELSE IF ~r.dangerous /\ e.derive = "ErrNotFound" /\ ~r.devmode
    THEN Out(chs, ts, FALSE,
             [BadRequest(<<"cannot", "find", "signatures", "with", "metadata", "for", "snap">>)
              EXCEPT !.calls = {Derive("none")}])
    ELSE LET derived == ~r.dangerous /\ e.derive = "nil"
             calls0 == IF r.dangerous THEN {}
                       ELSE {Derive(IF derived THEN "signed" ELSE "none")}
         IN IF ~derived /\ ~e.info
            THEN Out(chs, ts, FALSE,
                     [InternalError(<<"cannot", "read", "snap", "file">>)
                      EXCEPT !.calls = calls0 \cup {Call("unsafeReadSnapInfo")}])
            ELSE LET calls1 == IF derived THEN calls0
                               ELSE calls0 \cup {Call("unsafeReadSnapInfo")}
                     w0 == withEnsureUbuntuCore(ts, "foo", e.g, e.b0, "InstallPath", flags, e.b1)
                     w == [w0 EXCEPT !.calls = WithSideInfo(@, IF derived THEN "signed" ELSE "unsigned")]
                 IN IF w.err # noErr
                    THEN Out(chs, ts, FALSE,
                             [InternalError(<<"cannot", "install", "snap", "file">> \o w.err)
                              EXCEPT !.calls = calls1 \cup w.calls])
                    ELSE LET n == newChange(chs, w.tasks, "install-snap",
                                            <<"Install", "foo", "snap", "from", "file">>,
                                            w.tsets, <<"foo">>, TRUE)
                         IN Out(SetApiData(n.changes, n.id, <<"foo">>), n.tasks, TRUE,
                                [AsyncResponse(n.id)
                                 EXCEPT !.calls = calls1 \cup w.calls
                                                  \cup {NewChangeCall("install-snap",
                                                            <<"Install", "foo", "snap", "from", "file">>),
                                                        Call("EnsureBefore")}])

\* postSnaps for a multipart body, from st.Lock() on
postSnapsLocked(chs, ts, r, e) ==
    LET f == modeFlags(r.devmode, r.jailmode) IN
    IF r.action = "try" THEN trySnap(chs, ts, r, f.flags, e)
    ELSE sideload(chs, ts, r, f.flags, e)

\* ------------------------------------------------------------ changes
\* getChange, from state.Lock() on
getChange(chs, ts, r) ==
    IF r.id \notin DOMAIN chs
    THEN Out(chs, ts, FALSE, NotFound(<<"cannot", "find", "change">>))
    ELSE Out(chs, ts, FALSE, SyncResponse(change2changeInfo(chs, ts, r.id)))

\* Faulty variant of abortChange: ensureStateSoon is not called.
abortChangeNoEnsure(chs, ts, r) ==
    IF r.id \notin DOMAIN chs
    THEN Out(chs, ts, FALSE, NotFound(<<"cannot", "find", "change">>))
    ELSE IF ~r.bodyOK
    THEN Out(chs, ts, FALSE, BadRequest(<<"cannot", "decode", "data", "from", "request", "body">>))
    ELSE IF r.action # "abort"
    THEN Out(chs, ts, FALSE, BadRequest(<<"change", "action", r.action, "is", "unsupported">>))
    ELSE IF StatusReady(ChangeStatusIn(chs, ts, r.id))
    THEN Out(chs, ts, FALSE, BadRequest(<<"cannot", "abort", "change", "with", "nothing", "pending">>))
    ELSE LET ts1 == ChangeAbort(ts, r.id) IN
         Out(chs, ts1, FALSE,
             [SyncResponse(change2changeInfo(chs, ts1, r.id))
              EXCEPT !.calls = {Call("Abort")}])

\* Faulty variant of abortChange: a Ready Change is aborted like any other.
abortChangeNoReadyCheck(chs, ts, r) ==
    IF r.id \notin DOMAIN chs
    THEN Out(chs, ts, FALSE, NotFound(<<"cannot", "find", "change">>))
    ELSE IF ~r.bodyOK
    THEN Out(chs, ts, FALSE, BadRequest(<<"cannot", "decode", "data", "from", "request", "body">>))
    ELSE IF r.action # "abort"
    THEN Out(chs, ts, FALSE, BadRequest(<<"change", "action", r.action, "is", "unsupported">>))
    ELSE LET ts1 == ChangeAbort(ts, r.id) IN
         Out(chs, ts1, TRUE,
             [SyncResponse(change2changeInfo(chs, ts1, r.id))
              EXCEPT !.calls = {Call("Abort"), Call("EnsureBefore")}])

\* abortChange, from state.Lock() on
abortChange(chs, ts, r) ==
    IF r.id \notin DOMAIN chs
    THEN Out(chs, ts, FALSE, NotFound(<<"cannot", "find", "change">>))
    ELSE IF ~r.bodyOK
    THEN Out(chs, ts, FALSE, BadRequest(<<"cannot", "decode", "data", "from", "request", "body">>))
    ELSE IF r.action # "abort"
    THEN Out(chs, ts, FALSE, BadRequest(<<"change", "action", r.action, "is", "unsupported">>))
    ELSE IF StatusReady(ChangeStatusIn(chs, ts, r.id))
    THEN Out(chs, ts, FALSE, BadRequest(<<"cannot", "abort", "change", "with", "nothing", "pending">>))
    ELSE LET ts1 == ChangeAbort(ts, r.id) IN
         Out(chs, ts1, TRUE,
             [SyncResponse(change2changeInfo(chs, ts1, r.id))
              EXCEPT !.calls = {Call("Abort"), Call("EnsureBefore")}])

\* ------------------------------------------------------------ configuration
\* setSnapConf before s.Lock()
setSnapConfPre(r) ==
    IF ~r.bodyOK
    THEN BadRequest(<<"cannot", "decode", "request", "body", "into", "patch", "values">>)
    ELSE NoResp

\* Faulty variant of setSnapConf: the Ensure loop is not asked to run.
setSnapConfNoEnsure(chs, ts, r) ==
    LET b == Build(ts, "configstate.Change", r.name, {}, 1)
        c == Len(chs) + 1
        summary == <<"Setting", "config", "for", r.name>>
        chs1 == StateNewChange(chs, "configure-snap", summary)
    IN Out(chs1, AddAll(b.tasks, c, b.set), FALSE,
           [AsyncResponse(c)
            EXCEPT !.calls = b.calls \cup {NewChangeCall("configure-snap", summary)}])

\* setSnapConf from s.Lock() on: configstate.Change returns a task-set of one
\* task; the Change gets no snap-names.
setSnapConf(chs, ts, r) ==
    LET b == Build(ts, "configstate.Change", r.name, {}, 1)
        c == Len(chs) + 1
        summary == <<"Setting", "config", "for", r.name>>
        chs1 == StateNewChange(chs, "configure-snap", summary)
    IN Out(chs1, AddAll(b.tasks, c, b.set), TRUE,
           [AsyncResponse(c)
            EXCEPT !.calls = b.calls \cup {NewChangeCall("configure-snap", summary),
                                           Call("EnsureBefore")}])

\* ------------------------------------------------------------ interfaces
StatusNotImplemented == 501
NotImplemented(msg) == ErrorResponse(StatusNotImplemented, msg)

\* changeInterfaces before state.Lock().  internal: the daemon's
\* enableInternalInterfaceActions
changeInterfacesPre(r, internal) ==
    IF ~r.bodyOK
    THEN BadRequest(<<"cannot", "decode", "request", "body", "into", "an", "interface", "action">>)
    ELSE IF r.action = "" THEN BadRequest(<<"interface", "action", "not", "specified">>)
    ELSE IF ~internal /\ r.action # "connect" /\ r.action # "disconnect"
    THEN BadRequest(<<"internal", "interface", "actions", "are", "disabled">>)
    ELSE IF Len(r.plugs) > 1 \/ Len(r.slots) > 1
    THEN NotImplemented(<<"many-to-many", "operations", "are", "not", "implemented">>)
    ELSE IF r.action # "connect" /\ r.action # "disconnect"
    THEN BadRequest(<<"unsupported", "interface", "action", r.action>>)
    ELSE IF Len(r.plugs) = 0 \/ Len(r.slots) = 0
    THEN BadRequest(<<"at", "least", "one", "plug", "and", "slot", "is", "required">>)
    ELSE NoResp

\* fmt.Sprintf("Connect %s:%s to %s:%s", ...) and its Disconnect twin, as
\* the list of their parts
InterfaceSummary(action, plug, slot) ==
    IF action = "connect"
    THEN <<"Connect ", plug.snap, ":", plug.name, " to ", slot.snap, ":", slot.name>>
    ELSE <<"Disconnect ", plug.snap, ":", plug.name, " from ", slot.snap, ":", slot.name>>

\* Faulty variant of changeInterfaces: snap-names holds the plug's snap only.
changeInterfacesPlugOnly(chs, ts, r, b) ==
    LET plug == r.plugs[1]
        slot == r.slots[1]
        summary == InterfaceSummary(r.action, plug, slot)
        t == Build(ts, IF r.action = "connect" THEN "Connect" ELSE "Disconnect",
                   plug.snap, {}, b)
        c == Len(chs) + 1
    IN IF t.err # noErr
       THEN Out(chs, ts, FALSE, [BadRequest(t.err) EXCEPT !.calls = t.calls])
       ELSE Out(ChangeSet(StateNewChange(chs, Kind(r.action), summary), c,
                          "snap-names", <<plug.snap>>),
                AddAll(t.tasks, c, t.set), TRUE,
                [AsyncResponse(c)
                 EXCEPT !.calls = t.calls \cup {NewChangeCall(Kind(r.action), summary),
                                                Call("EnsureBefore")}])

\* changeInterfaces from state.Lock() on.  b: what ifacestate.Connect or
\* Disconnect returns, an error (0) or a task-set of b tasks
changeInterfaces(chs, ts, r, b) ==
    LET plug == r.plugs[1]
        slot == r.slots[1]
        summary == InterfaceSummary(r.action, plug, slot)
        t == Build(ts, IF r.action = "connect" THEN "Connect" ELSE "Disconnect",
                   plug.snap, {}, b)
        c == Len(chs) + 1
    IN IF t.err # noErr
       THEN Out(chs, ts, FALSE, [BadRequest(t.err) EXCEPT !.calls = t.calls])
       ELSE Out(ChangeSet(StateNewChange(chs, Kind(r.action), summary), c,
                          "snap-names", <<plug.snap, slot.snap>>),
                AddAll(t.tasks, c, t.set), TRUE,
                [AsyncResponse(c)
                 EXCEPT !.calls = t.calls \cup {NewChangeCall(Kind(r.action), summary),
                                                Call("EnsureBefore")}])

\* ------------------------------------------------------------ change list
qselect(r) == IF r.select = "" THEN "in-progress" ELSE r.select

\* getChanges before state.Lock()
getChangesPre(r) ==
    IF qselect(r) \notin {"all", "in-progress", "ready"}
    THEN BadRequest(<<"select", "should", "be", "one", "of", "all", "in-progress", "ready">>)
    ELSE NoResp

\* Faulty variant of filter: the for parameter is not looked at.
filterSelectOnly(chs, ts, c, r) ==
    CASE qselect(r) = "all" -> TRUE
      [] qselect(r) = "in-progress" -> ~StatusReady(ChangeStatusIn(chs, ts, c))
      [] qselect(r) = "ready" -> StatusReady(ChangeStatusIn(chs, ts, c))

\* the filter getChanges builds from select and for
filter(chs, ts, c, r) ==
    LET outerFilter == CASE qselect(r) = "all" -> TRUE
                         [] qselect(r) = "in-progress" -> ~StatusReady(ChangeStatusIn(chs, ts, c))
                         [] qselect(r) = "ready" -> StatusReady(ChangeStatusIn(chs, ts, c))
    IN IF r.for = "" THEN outerFilter
       ELSE IF ~outerFilter THEN FALSE
       ELSE IF "snap-names" \notin DOMAIN chs[c].data THEN FALSE
       ELSE \E i \in DOMAIN chs[c].data["snap-names"] : chs[c].data["snap-names"][i] = r.for

\* getChanges from state.Lock() on: state.Changes() in the order of the ids
getChanges(chs, ts, r) ==
    LET Keep(c) == filter(chs, ts, c, r)
        kept == SelectSeq([c \in 1..Len(chs) |-> c], Keep)
    IN Out(chs, ts, FALSE,
           SyncResponse([i \in DOMAIN kept |-> change2changeInfo(chs, ts, kept[i])]))

\* ------------------------------------------------------------ request steps
\* A handler runs to its return statement.  pre is the Response of its code
\* before state.Lock(), NoResp when that code lets the request through; the
\* handler then takes the state lock and out is what its locked section
\* leaves.  The deferred Unlock has not run yet.
Handle(cap, r, pre, out) ==
    /\ resp = NoResp
    /\ req' = r
    /\ IF pre # NoResp
       THEN /\ resp' = pre
            /\ UNCHANGED <<changes, tasks, lock, ensureBefore>>
       ELSE /\ lock = "free"
            /\ lock' = "api"
            /\ Len(out.changes) <= cap
            /\ Len(out.tasks) <= MaxTasks
            /\ changes' = out.changes
            /\ tasks' = out.tasks
            /\ ensureBefore' = (ensureBefore \/ out.ensure)
            /\ resp' = out.resp
    /\ UNCHANGED <<inflight, forceDevMode, auxVars>>

\* The handler returns: the deferred Unlock runs, the Response is written.
Return ==
    /\ resp # NoResp
    /\ lock' = "free"
    /\ req' = NoReq
    /\ resp' = NoResp
    /\ UNCHANGED <<changes, tasks, inflight, ensureBefore, forceDevMode, auxVars>>

Inst(a, n, dm, jm, rev) ==
    [NoReq EXCEPT !.op = "postSnap", !.action = a, !.name = n, !.devmode = dm,
                  !.jailmode = jm, !.revision = rev]

\* The request bodies the model sends to /v2/snaps/{name}.
PostSnapRequests ==
    {Inst("install", n, dm, jm, FALSE) : n \in Names, dm \in BOOLEAN, jm \in BOOLEAN}
    \cup {Inst(a, "foo", dm, jm, FALSE) : a \in {"refresh", "revert"}, dm \in BOOLEAN, jm \in BOOLEAN}
    \cup {Inst("revert", "foo", FALSE, FALSE, TRUE)}
    \cup {Inst(a, "foo", b, b, FALSE) : a \in {"remove", "enable", "disable"}, b \in BOOLEAN}
    \cup {Inst(a, "foo", FALSE, FALSE, TRUE) : a \in {"enable", "disable"}}
    \cup {Inst("bogus", "foo", FALSE, FALSE, FALSE)}
    \cup {[NoReq EXCEPT !.op = "postSnap", !.bodyOK = FALSE]}

\* The outcomes of the calls a postSnap request makes outside this file:
\* g of snapstateGet, d of RefreshSnapDeclarations, b0 of the bootstrap
\* builder, b1 of the operation's builder.
Outcome(g, d, b0, b1) == [g |-> g, d |-> d, b0 |-> b0, b1 |-> b1]

PostSnapOutcomes(r) ==
    IF r.action = "install" /\ r.name # "ubuntu-core"
    THEN {Outcome("ErrNoState", TRUE, b0, b1) : b0 \in BuildOutcomes, b1 \in BuildOutcomes}
         \cup {Outcome(g, TRUE, 0, b1) : g \in GetOutcomes \ {"ErrNoState"}, b1 \in BuildOutcomes}
    ELSE IF r.action = "refresh"
    THEN {Outcome("nil", d, 0, b1) : d \in BOOLEAN, b1 \in BuildOutcomes}
    ELSE {Outcome("nil", TRUE, 0, b1) : b1 \in BuildOutcomes}

PostSnap ==
    \E r \in PostSnapRequests :
        \E o \in PostSnapOutcomes(r) :
            Handle(MaxChanges, r, postSnapPre(r), postSnap(changes, tasks, r, o.g, o.d, o.b0, o.b1))

Multi(a, n, ch, rev, dm, jm) ==
    [NoReq EXCEPT !.op = "snapsOp", !.ctype = "application/json", !.action = a, !.nsnaps = n,
                  !.channel = ch, !.revision = rev, !.devmode = dm, !.jailmode = jm]

\* The JSON bodies the model posts to /v2/snaps.
SnapsOpRequests ==
    {Multi(a, n, "", FALSE, FALSE, FALSE) : a \in {"refresh", "install", "remove"}, n \in 0..2}
    \cup {Multi("bogus", 1, "", FALSE, FALSE, FALSE)}
    \cup {Multi("install", 1, "edge", FALSE, FALSE, FALSE),
          Multi("remove", 1, "", TRUE, FALSE, FALSE),
          Multi("refresh", 1, "", FALSE, TRUE, FALSE),
          Multi("install", 1, "", FALSE, FALSE, TRUE),
          Multi("refresh", 2, "edge", TRUE, TRUE, TRUE)}
    \cup {[NoReq EXCEPT !.op = "snapsOp", !.ctype = "application/json", !.bodyOK = FALSE]}

ManyOutcomes ==
    {[err |-> TRUE, n |-> 0]} \cup {[err |-> FALSE, n |-> k] : k \in 0..MaxSetSize}

SnapsOp ==
    \E r \in SnapsOpRequests :
        \E d \in (IF r.action = "refresh" THEN BOOLEAN ELSE {TRUE}), m \in ManyOutcomes :
            Handle(MaxChanges, r, snapsOpPre(r), snapsOp(changes, tasks, r, d, m))

Form(a, dangerous, dm, jm, snapPath, file) ==
    [NoReq EXCEPT !.op = "postSnaps", !.ctype = "multipart/form-data", !.action = a,
                  !.name = "foo", !.dangerous = dangerous, !.devmode = dm, !.jailmode = jm,
                  !.snapPath = snapPath, !.file = file]

\* The other bodies the model posts to /v2/snaps.
PostSnapsRequests ==
    {Form("try", FALSE, dm, jm, TRUE, FALSE) : dm \in BOOLEAN, jm \in BOOLEAN}
    \cup {Form("try", FALSE, FALSE, FALSE, FALSE, FALSE)}
    \cup {Form("", dg, dm, jm, FALSE, TRUE) : dg \in BOOLEAN, dm \in BOOLEAN, jm \in BOOLEAN}
    \cup {Form("", FALSE, FALSE, FALSE, FALSE, FALSE)}
    \cup {[NoReq EXCEPT !.op = "postSnaps", !.ctype = "text/plain"]}

Env(parse, io, abs, dir, info, derive, g, b0, b1) ==
    [parse |-> parse, io |-> io, abs |-> abs, dir |-> dir, info |-> info,
     derive |-> derive, g |-> g, b0 |-> b0, b1 |-> b1]

\* What the parser, the file system, the assertion database and the builders
\* may answer to a postSnaps request.
PostSnapsOutcomes(r) ==
    {Env(parse, "ok", TRUE, TRUE, TRUE, "nil", "nil", 0, 1) : parse \in {"mediatype", "form"}}
    \cup (IF r.action = "try"
          THEN {Env("ok", "ok", abs, dir, info, "nil", "nil", 0, b1) :
                    abs \in BOOLEAN, dir \in BOOLEAN, info \in BOOLEAN, b1 \in BuildOutcomes}
          ELSE {Env("ok", io, TRUE, TRUE, TRUE, "nil", "nil", 0, 1) :
                    io \in {"open", "tempfile", "copy"}}
               \cup {Env("ok", "ok", TRUE, TRUE, info, derive, "ErrNoState", b0, b1) :
                    info \in BOOLEAN, derive \in {"nil", "ErrNotFound", "error"},
                    b0 \in BuildOutcomes, b1 \in BuildOutcomes}
               \cup {Env("ok", "ok", TRUE, TRUE, TRUE, "nil", g, 0, b1) :
                    g \in {"nil", "error"}, b1 \in BuildOutcomes})

PostSnaps ==
    \E r \in PostSnapsRequests :
        \E e \in PostSnapsOutcomes(r) :
            Handle(MaxChanges, r, postSnapsPre(r, e), postSnapsLocked(changes, tasks, r, e))

ChangeRequestIds == 1..MaxEngineChanges

GetChange ==
    \E id \in ChangeRequestIds :
        LET r == [NoReq EXCEPT !.op = "getChange", !.id = id] IN
        Handle(MaxEngineChanges, r, NoResp, getChange(changes, tasks, r))

\* The bodies the model posts to /v2/changes/{id}: an abort, another action,
\* and one that does not decode.
AbortBodies ==
    {[action |-> "abort", bodyOK |-> TRUE], [action |-> "pause", bodyOK |-> TRUE],
     [action |-> "", bodyOK |-> FALSE]}

AbortChange ==
    \E id \in ChangeRequestIds, b \in AbortBodies :
        LET r == [NoReq EXCEPT !.op = "abortChange", !.id = id, !.action = b.action,
                               !.bodyOK = b.bodyOK] IN
        Handle(MaxEngineChanges, r, NoResp, abortChange(changes, tasks, r))

\* POST /v2/snaps/foo {"action": "install"}, with every answer of the store
\* and the builders.
Install ==
    LET r == Inst("install", "foo", FALSE, FALSE, FALSE) IN
    \E o \in PostSnapOutcomes(r) :
        Handle(MaxEngineChanges, r, postSnapPre(r),
               postSnap(changes, tasks, r, o.g, o.d, o.b0, o.b1))

\* ------------------------------------------------------------ assertions
\* An assertion is known here by its type and primary key (key), its revision
\* (rev) and what is wrong with it, if anything (flaw).  The database keeps
\* for each key the revision it holds, NoRevision when it holds none.
MaxRevision == 2
MaxBatch == 2
NoRevision == -1
AssertKeys == {"account", "snap-declaration"}
Flaws == {"", "signature-invalid"}
Assertions == [key : AssertKeys, rev : 0..MaxRevision, flaw : Flaws]
EmptyDb == [k \in AssertKeys |-> NoRevision]
errRevision == "revision-regression"

\* Faulty variant of DbAdd: an older revision replaces the stored one.
DbAddAnyRevision(d, a, same) ==
    IF a.flaw # "" THEN [db |-> d, err |-> a.flaw]
    ELSE [db |-> [d EXCEPT ![a.key] = a.rev], err |-> ""]

\* Database.Add(a).  same: what Add answers for the revision it already
\* holds, which leaves the database as it is either way.
DbAdd(d, a, same) ==
    IF a.flaw # "" THEN [db |-> d, err |-> a.flaw]
    ELSE IF a.rev < d[a.key] THEN [db |-> d, err |-> errRevision]
    ELSE IF a.rev = d[a.key] THEN [db |-> d, err |-> same]
    ELSE [db |-> [d EXCEPT ![a.key] = a.rev], err |-> ""]

\* The assertions of batch added one after the other to d, up to the first
\* that Add refuses: at is its place in the batch, 0 when all were added.
RECURSIVE AddEach(_, _, _, _)
AddEach(d, batch, same, i) ==
    IF i > Len(batch) THEN [db |-> d, err |-> "", at |-> 0]
    ELSE LET r == DbAdd(d, batch[i], same) IN
         IF r.err # "" THEN [db |-> d, err |-> r.err, at |-> i]
         ELSE AddEach(r.db, batch, same, i + 1)

\* Faulty variant of Commit: what was added before the offending assertion
\* stays in the database.
CommitPartial(d, batch, same) == AddEach(d, batch, same, 1)

\* Batch.Commit(state): all of the batch, or nothing and the first error
Commit(d, batch, same) ==
    LET r == AddEach(d, batch, same, 1) IN
    IF r.err # "" THEN [r EXCEPT !.db = d] ELSE r

\* doAssert before state.Lock(): batch.AddStream(r.Body)
doAssertPre(r) ==
    IF ~r.bodyOK
    THEN BadRequest(<<"cannot", "decode", "request", "body", "into", "assertions">>)
    ELSE NoResp

\* doAssert from state.Lock() on
doAssert(d, r, same) ==
    LET c == Commit(d, r.batch, same) IN
    IF c.err # ""
    THEN [db |-> c.db, resp |-> BadRequest(<<"assert", "failed", c.err, c.at>>)]
    ELSE [db |-> c.db, resp |-> [NoResp EXCEPT !.type = "sync", !.status = StatusOK]]

Batches == UNION {[1..n -> Assertions] : n \in 1..MaxBatch}

\* POST /v2/assertions
DoAssert ==
    /\ resp = NoResp
    /\ \E ok \in BOOLEAN, b \in Batches, same \in {"", errRevision} :
        LET r == [batch |-> b] @@ [NoReq EXCEPT !.op = "doAssert", !.bodyOK = ok]
            pre == doAssertPre(r)
            out == doAssert(db, r, same)
        IN /\ req' = r
           /\ IF pre # NoResp
              THEN resp' = pre /\ UNCHANGED <<lock, db>>
              ELSE /\ lock = "free"
                   /\ lock' = "api"
                   /\ db' = out.db
                   /\ resp' = out.resp
    /\ UNCHANGED <<changes, tasks, inflight, ensureBefore, forceDevMode, users, procs, owner>>

\* Database.Add(a), called by whoever holds the state lock.
AssertAdd ==
    /\ resp = NoResp
    /\ lock = "free"
    /\ \E a \in Assertions, same \in {"", errRevision} :
        LET r == DbAdd(db, a, same) IN
        /\ req' = [batch |-> <<a>>] @@ [NoReq EXCEPT !.op = "Add"]
        /\ db' = r.db
        /\ resp' = [NoResp EXCEPT !.type = "return", !.msg = <<r.err>>]
    /\ lock' = "api"
    /\ UNCHANGED <<changes, tasks, inflight, ensureBefore, forceDevMode, users, procs, owner>>

\* ------------------------------------------------------------ login
MaxNameLen == 4
MaxUsers == 1

\* The longest regexp pattern drawn from the alphabet.
MaxPatternLen == 3

\* The most branches an alternatives node is given.
MaxAlts == 2

\* The deepest constraint tree handed to the compiler.
MaxDepth == 3

\* The longest list-valued attribute.
MaxListLen == 3
StatusUnauthorized == 401

\* A user name is the list of its characters.
Chars == {"a", "@", "."}
Usernames == UNION {[1..n -> Chars] : n \in 0..MaxNameLen}

\* regexp `.@.*\..`, matched anywhere in s: a character, "@", any run of
\* characters, ".", a character; "." matches no newline
isEmailish(s) ==
    \E i \in DOMAIN s : \E j \in DOMAIN s :
        /\ s[i] # "\n"
        /\ i + 1 \in DOMAIN s
        /\ s[i + 1] = "@"
        /\ j >= i + 2
        /\ s[j] = "."
        /\ j + 1 \in DOMAIN s
        /\ s[j + 1] # "\n"
        /\ \A k \in (i + 2)..(j - 1) : s[k] # "\n"

\* an error Response with a kind
KindError(status, kind, msg) == [kind |-> kind] @@ ErrorResponse(status, msg)

\* store.LoginUser(username, password, otp) and the error it returned
StoreLogin(err) == [Call("store.LoginUser") EXCEPT !.err = err]

StoreLoginOutcomes ==
    {"nil", "ErrAuthenticationNeeds2fa", "Err2faFailed", "ErrInvalidAuthData", "error"}

\* auth.NewUser(state, username, macaroon, discharges): the new user record
\* is put after the others, or an error leaves them as they are.
NewUser(us, username, ok) ==
    IF ok THEN Append(us, [username |-> username]) ELSE us

\* Faulty variant of loginUser: the user name is not looked at.
loginUserAnyName(us, r, s, n) ==
    IF ~r.bodyOK
    THEN [users |-> us, locked |-> FALSE,
          resp |-> [kind |-> ""] @@ BadRequest(<<"cannot", "decode", "login", "data">>)]
    ELSE IF s = "ErrAuthenticationNeeds2fa"
    THEN [users |-> us, locked |-> FALSE,
          resp |-> [KindError(StatusUnauthorized, "two-factor-required", <<s>>)
                    EXCEPT !.calls = {StoreLogin(s)}]]
    ELSE IF s = "Err2faFailed"
    THEN [users |-> us, locked |-> FALSE,
          resp |-> [KindError(StatusUnauthorized, "two-factor-failed", <<s>>)
                    EXCEPT !.calls = {StoreLogin(s)}]]
    ELSE IF s = "ErrInvalidAuthData"
    THEN [users |-> us, locked |-> FALSE,
          resp |-> [KindError(StatusBadRequest, "invalid-auth-data", <<s>>)
                    EXCEPT !.calls = {StoreLogin(s)}]]
    ELSE IF s # "nil"
    THEN [users |-> us, locked |-> FALSE,
          resp |-> [KindError(StatusUnauthorized, "", <<s>>) EXCEPT !.calls = {StoreLogin(s)}]]
    ELSE [users |-> NewUser(us, r.username, n), locked |-> TRUE,
          resp |-> IF ~n
                   THEN [[kind |-> ""]
                         @@ InternalError(<<"cannot", "persist", "authentication", "details">>)
                         EXCEPT !.calls = {StoreLogin(s), Call("auth.NewUser")}]
                   ELSE [[kind |-> ""] @@ SyncResponse(NoInfo)
                         EXCEPT !.calls = {StoreLogin(s), Call("auth.NewUser")}]]

\* loginUser.  s: what store.LoginUser returns; n: whether auth.NewUser
\* succeeds.  locked: whether the handler took the state lock.
loginUser(us, r, s, n) ==
    IF ~r.bodyOK
    THEN [users |-> us, locked |-> FALSE,
          resp |-> [kind |-> ""] @@ BadRequest(<<"cannot", "decode", "login", "data">>)]
    ELSE IF ~isEmailish(r.username)
    THEN [users |-> us, locked |-> FALSE,
          resp |-> KindError(StatusBadRequest, "invalid-auth-data",
                             <<"please", "use", "a", "valid", "email", "address">>)]
    ELSE IF s = "ErrAuthenticationNeeds2fa"
    THEN [users |-> us, locked |-> FALSE,
          resp |-> [KindError(StatusUnauthorized, "two-factor-required", <<s>>)
                    EXCEPT !.calls = {StoreLogin(s)}]]
    ELSE IF s = "Err2faFailed"
    THEN [users |-> us, locked |-> FALSE,
          resp |-> [KindError(StatusUnauthorized, "two-factor-failed", <<s>>)
                    EXCEPT !.calls = {StoreLogin(s)}]]
    ELSE IF s = "ErrInvalidAuthData"
    THEN [users |-> us, locked |-> FALSE,
          resp |-> [KindError(StatusBadRequest, "invalid-auth-data", <<s>>)
                    EXCEPT !.calls = {StoreLogin(s)}]]
    ELSE IF s # "nil"
    THEN [users |-> us, locked |-> FALSE,
          resp |-> [KindError(StatusUnauthorized, "", <<s>>) EXCEPT !.calls = {StoreLogin(s)}]]
    ELSE [users |-> NewUser(us, r.username, n), locked |-> TRUE,
          resp |-> IF ~n
                   THEN [[kind |-> ""]
                         @@ InternalError(<<"cannot", "persist", "authentication", "details">>)
                         EXCEPT !.calls = {StoreLogin(s), Call("auth.NewUser")}]
                   ELSE [[kind |-> ""] @@ SyncResponse(NoInfo)
                         EXCEPT !.calls = {StoreLogin(s), Call("auth.NewUser")}]]

\* Whether the body decodes, what the store answers and whether NewUser
\* succeeds: an answer is told apart only where the handler gets to it.
LoginOutcomes ==
    {[ok |-> FALSE, s |-> "nil", n |-> TRUE]}
    \cup {[ok |-> TRUE, s |-> s, n |-> TRUE] : s \in StoreLoginOutcomes}
    \cup {[ok |-> TRUE, s |-> "nil", n |-> FALSE]}

\* POST /v2/login
Login ==
    /\ resp = NoResp
    /\ \E u \in Usernames, o \in LoginOutcomes :
        LET r == [username |-> u] @@ [NoReq EXCEPT !.op = "loginUser", !.bodyOK = o.ok]
            out == loginUser(users, r, o.s, o.n)
        IN /\ req' = r
           /\ Len(out.users) <= MaxUsers
           /\ out.locked => lock = "free"
           /\ lock' = IF out.locked THEN "api" ELSE lock
           /\ users' = out.users
           /\ resp' = out.resp
    /\ UNCHANGED <<changes, tasks, inflight, ensureBefore, forceDevMode, db, procs, owner>>

\* logoutUser.  user: the place of the request's user among the user
\* records, 0 when the request has none; ok: whether auth.RemoveUser succeeds
logoutUser(us, user, ok) ==
    IF user = 0
    THEN [users |-> us, resp |-> [kind |-> ""] @@ BadRequest(<<"not", "logged", "in">>)]
    ELSE IF ~ok
    THEN [users |-> us, resp |-> [kind |-> ""] @@ InternalError(<<"remove", "user", "error">>)]
    ELSE [users |-> [i \in 1..(Len(us) - 1) |-> IF i < user THEN us[i] ELSE us[i + 1]],
          resp |-> [kind |-> ""] @@ SyncResponse(NoInfo)]

\* POST /v2/logout
Logout ==
    /\ resp = NoResp
    /\ lock = "free"
    /\ \E user \in 0..Len(users), ok \in BOOLEAN :
        LET out == logoutUser(users, user, ok) IN
        /\ req' = [username |-> <<>>] @@ [NoReq EXCEPT !.op = "logoutUser", !.id = user]
        /\ users' = out.users
        /\ resp' = out.resp
    /\ lock' = "api"
    /\ UNCHANGED <<changes, tasks, inflight, ensureBefore, forceDevMode, db, procs, owner>>

\* ------------------------------------------------------------ attribute constraints
\* A value of the attribute or constraint tree is nil, a string, a boolean,
\* an integer, a list or a map, each a record of the one field that tells
\* which.
Nil == [nil |-> TRUE]
Str(s) == [str |-> s]
Bool(b) == [bool |-> b]
IntVal(n) == [int |-> n]
List(l) == [list |-> l]
Map(m) == [map |-> m]

\* x[k] of a Go map: nil for a key it does not hold
Lookup(m, k) == IF k \in DOMAIN m THEN m[k] ELSE Nil

\* The dotted context, as the list of its parts.
chain(context, k) == IF context = <<>> THEN <<k>> ELSE context \o <<k>>

\* strconv.Itoa
RECURSIVE Itoa(_)
Itoa(n) ==
    IF n < 0 THEN "-" \o Itoa(0 - n)
    ELSE IF n < 10 THEN <<"0", "1", "2", "3", "4", "5", "6", "7", "8", "9">>[n + 1]
    ELSE Itoa(n \div 10) \o Itoa(n % 10)

FormatBool(b) == IF b THEN "true" ELSE "false"

\* The alternatives of a pattern, as regexp/syntax parses it: "|" binds
\* weakest, so the pieces between the "|"s are the alternatives, and an
\* anchor belongs to the alternative it is written in.
RECURSIVE Alternatives(_)
Alternatives(p) ==
    IF \E i \in 1..Len(p) : SubSeq(p, i, i) = "|"
    THEN LET i == CHOOSE j \in 1..Len(p) :
                      /\ SubSeq(p, j, j) = "|"
                      /\ \A h \in 1..(j - 1) : SubSeq(p, h, h) # "|"
         IN {SubSeq(p, 1, i - 1)} \cup Alternatives(SubSeq(p, i + 1, Len(p)))
    ELSE {p}

\* One alternative matches s from position i on: "^" holds at the start of
\* the text, "$" at its end, "." takes any character, any other character
\* takes itself.
RECURSIVE MatchAt(_, _, _)
MatchAt(b, s, i) ==
    IF Len(b) = 0 THEN TRUE
    ELSE LET a == SubSeq(b, 1, 1)
             rest == SubSeq(b, 2, Len(b))
         IN IF a = "^" THEN i = 1 /\ MatchAt(rest, s, i)
            ELSE IF a = "$" THEN i = Len(s) + 1 /\ MatchAt(rest, s, i)
            ELSE /\ i <= Len(s)
                 /\ a = "." \/ SubSeq(s, i, i) = a
                 /\ MatchAt(rest, s, i + 1)

\* regexp.Compile("^" + s + "$").MatchString, for patterns of characters,
\* "." and "|": MatchString looks for a match anywhere in the text.
MatchString(rx, s) ==
    \E b \in Alternatives("^" \o rx \o "$"), i \in 1..(Len(s) + 1) : MatchAt(b, s, i)

\* compileAttrMatcher: the matcher of a constraint tree, [err |-> ...] when
\* it does not compile.  A matcher is [map |-> ...], [re |-> ...] or
\* [alts |-> ...].
RECURSIVE compileAttrMatcher(_, _, _)

\* Faulty variant of compileAttrMatcher: a list directly inside a list is
\* compiled as alternatives of its own.
compileAttrMatcherNested(hadMap, wasAlt, x) ==
    IF "map" \in DOMAIN x
    THEN LET sub == [k \in DOMAIN x.map |-> compileAttrMatcher(TRUE, FALSE, x.map[k])] IN
         IF \E k \in DOMAIN sub : "err" \in DOMAIN sub[k]
         THEN [err |-> "entry"]
         ELSE [map |-> sub]
    ELSE IF "list" \in DOMAIN x
    THEN LET alts == [i \in DOMAIN x.list |-> compileAttrMatcher(hadMap, TRUE, x.list[i])] IN
         IF \E i \in DOMAIN alts : "err" \in DOMAIN alts[i]
         THEN [err |-> "alternative"]
         ELSE [alts |-> alts]
    ELSE IF "str" \in DOMAIN x
    THEN IF ~hadMap THEN [err |-> "first level must be a set of key-value constraints"]
         ELSE [re |-> x.str]
    ELSE [err |-> "must be a key-value map, regexp or a list of alternative constraints"]

compileAttrMatcher(hadMap, wasAlt, x) ==
    IF "map" \in DOMAIN x
    THEN LET sub == [k \in DOMAIN x.map |-> compileAttrMatcher(TRUE, FALSE, x.map[k])] IN
         IF \E k \in DOMAIN sub : "err" \in DOMAIN sub[k]
         THEN [err |-> "entry"]
         ELSE [map |-> sub]
    ELSE IF "list" \in DOMAIN x
    THEN IF wasAlt THEN [err |-> "cannot nest alternative constraints directly"]
         ELSE LET alts == [i \in DOMAIN x.list |-> compileAttrMatcher(hadMap, TRUE, x.list[i])] IN
              IF \E i \in DOMAIN alts : "err" \in DOMAIN alts[i]
              THEN [err |-> "alternative"]
              ELSE [alts |-> alts]
    ELSE IF "str" \in DOMAIN x
    THEN IF ~hadMap THEN [err |-> "first level must be a set of key-value constraints"]
         ELSE [re |-> x.str]
    ELSE [err |-> "must be a key-value map, regexp or a list of alternative constraints"]

\* What match returns is nil (Ok) or an error that carries the context; the
\* order in which Go walks a map is not fixed, so a match has a set of
\* possible results.
Ok == [ok |-> TRUE]
Diag(context, why) == [path |-> context, why |-> why]

RECURSIVE match(_, _, _)
RECURSIVE matchList(_, _, _, _)

matchEntry(context, k, matcher1, v) ==
    IF v = Nil
    THEN {Diag(chain(context, k), "has constraints but is unset")}
    ELSE match(chain(context, k), matcher1, v)

\* Faulty variant of matchList: stops after the first element.
matchListFirstOnly(context, matcher, l, i) ==
    IF i > Len(l) \/ i > 1 THEN {Ok}
    ELSE LET rs == match(chain(context, Itoa(i - 1)), matcher, l[i]) IN
         IF Ok \in rs THEN matchList(context, matcher, l, i + 1) ELSE rs

\* matchList, from element i of l on
matchList(context, matcher, l, i) ==
    IF i > Len(l) THEN {Ok}
    ELSE LET rs == match(chain(context, Itoa(i - 1)), matcher, l[i]) IN
         IF Ok \in rs THEN matchList(context, matcher, l, i + 1) ELSE rs

\* Faulty variant of mapAttrMatcherMatch: one matching entry is enough.
mapAttrMatcherMatchAny(context, matcher, v) ==
    IF "map" \in DOMAIN v
    THEN LET failing == {k \in DOMAIN matcher.map :
                            Ok \notin matchEntry(context, k, matcher.map[k], Lookup(v.map, k))}
         IN IF failing # DOMAIN matcher.map \/ failing = {} THEN {Ok}
            ELSE UNION {matchEntry(context, k, matcher.map[k], Lookup(v.map, k)) : k \in failing}
    ELSE IF "list" \in DOMAIN v THEN matchList(context, matcher, v.list, 1)
    ELSE {Diag(context, "must be a map")}

\* mapAttrMatcher.match: the error of the first entry that fails, whichever
\* entry the walk reaches first
mapAttrMatcherMatch(context, matcher, v) ==
    IF "map" \in DOMAIN v
    THEN LET failing == {k \in DOMAIN matcher.map :
                            Ok \notin matchEntry(context, k, matcher.map[k], Lookup(v.map, k))}
         IN IF failing = {} THEN {Ok}
            ELSE UNION {matchEntry(context, k, matcher.map[k], Lookup(v.map, k)) : k \in failing}
    ELSE IF "list" \in DOMAIN v THEN matchList(context, matcher, v.list, 1)
    ELSE {Diag(context, "must be a map")}

regexpAttrMatcherMatch(context, matcher, v) ==
    IF "list" \in DOMAIN v THEN matchList(context, matcher, v.list, 1)
    ELSE IF DOMAIN v \cap {"str", "bool", "int"} = {}
    THEN {Diag(context, "must be a scalar or list")}
    ELSE LET s == IF "str" \in DOMAIN v THEN v.str
                  ELSE IF "bool" \in DOMAIN v THEN FormatBool(v.bool)
                  ELSE Itoa(v.int)
         IN IF MatchString(matcher.re, s) THEN {Ok}
            ELSE {Diag(context, "does not match")}

\* Faulty variant of altAttrMatcherMatch: reports the last alternative's
\* error.
altAttrMatcherMatchLastErr(context, matcher, v) ==
    IF \E i \in DOMAIN matcher.alts : Ok \in match(context, matcher.alts[i], v)
    THEN {Ok}
    ELSE IF matcher.alts = <<>>
    THEN {[path |-> context, why |-> "no alternative matches", cause |-> Nil]}
    ELSE {[path |-> context, why |-> "no alternative matches", cause |-> e] :
             e \in match(context, matcher.alts[Len(matcher.alts)], v)}

\* altAttrMatcher.match: nil when an alternative matches, else an error
\* that carries the context and the first alternative's error
altAttrMatcherMatch(context, matcher, v) ==
    IF \E i \in DOMAIN matcher.alts : Ok \in match(context, matcher.alts[i], v)
    THEN {Ok}
    ELSE IF matcher.alts = <<>>
    THEN {[path |-> context, why |-> "no alternative matches", cause |-> Nil]}
    ELSE {[path |-> context, why |-> "no alternative matches", cause |-> e] :
             e \in match(context, matcher.alts[1], v)}

match(context, matcher, v) ==
    IF "map" \in DOMAIN matcher THEN mapAttrMatcherMatch(context, matcher, v)
    ELSE IF "re" \in DOMAIN matcher THEN regexpAttrMatcherMatch(context, matcher, v)
    ELSE altAttrMatcherMatch(context, matcher, v)

\* compileAttributeConstraints: the compiled constraints and a nil error, or
\* nil and the error
compileAttributeConstraints(constraints) ==
    LET matcher == compileAttrMatcher(FALSE, FALSE, constraints) IN
    IF "err" \in DOMAIN matcher
    THEN [constraints |-> Nil, err |-> matcher.err]
    ELSE [constraints |-> [matcher |-> matcher], err |-> ""]

\* compileAttributeConstraints(constraints).Check(attrs)
Check(constraints, attrs) == match(<<>>, compileAttrMatcher(FALSE, FALSE, constraints), Map(attrs))

\* The constraints an entry of the node may carry: a regexp, alternatives,
\* a nested map node.
EntryConstraints ==
    {Str("usb"), List(<<Str("high"), Str("full")>>), Map("a" :> Str("usb"))}

\* The map nodes over the keys bus and speed.
MapNodes == UNION {[D -> EntryConstraints] : D \in SUBSET {"bus", "speed"}}

AttrValues ==
    {Nil, Str("usb"), Str("pci"), Str("full"), Bool(TRUE), IntVal(1), List(<<>>),
     List(<<Str("usb"), Str("pci")>>), List(<<Str("full"), Str("high")>>),
     Map("a" :> Str("usb")), Map("a" :> Str("pci"))}

\* The attribute maps: bus and speed with any of the values or left out,
\* and a key no node mentions.
AttrMaps ==
    UNION {{m @@ x : m \in [D -> AttrValues], x \in {<<>>, "extra" :> Str("usb")}} :
              D \in SUBSET {"bus", "speed"}}

\* The strings of at most n characters of the alphabet.
RECURSIVE Words(_, _)
Words(alphabet, n) ==
    IF n = 0 THEN {""}
    ELSE LET w == Words(alphabet, n - 1) IN w \cup {x \o c : x \in w, c \in alphabet}

\* The patterns of a regexp leaf: every pattern of a, b and "|" up to
\* MaxPatternLen, and some for names, booleans and numbers.
Patterns ==
    Words({"a", "b", "|"}, MaxPatternLen)
        \cup {"usb", "usb|pci", "u.b", "true", "true|false", "1", "12", "-1", "1|2"}

\* The scalar attribute values: strings, booleans, integers.
Scalars ==
    {Str(t) : t \in Words({"a", "b"}, MaxPatternLen)
                       \cup {"usb", "pci", "usbx", "xpci", "uxb", "true", "1", "12", "-1"}}
        \cup {Bool(TRUE), Bool(FALSE), IntVal(0), IntVal(1), IntVal(2), IntVal(12), IntVal(-1)}

\* A regexp leaf under the key leaf, checked against a scalar.
RegexpInputs ==
    {[constraints |-> Map("leaf" :> Str(p)), attrs |-> ("leaf" :> v)] :
        p \in Patterns, v \in Scalars}

\* The sequences of at most n elements of set.
RECURSIVE Lists(_, _)
Lists(set, n) ==
    IF n = 0 THEN {<<>>}
    ELSE LET l == Lists(set, n - 1) IN l \cup {Append(x, e) : x \in l, e \in set}

\* The branches of an alternatives node below a key, and the map branches
\* one at the top may have.
MapBranches == {Map("a" :> Str("usb")), Map(("a" :> Str("usb")) @@ ("b" :> Str("pci")))}
Branches == {Str("usb"), Str("pci")} \cup MapBranches

\* An alternatives node of at most MaxAlts branches under the key alt, and
\* one at the top of the constraints.
AltInputs ==
    {[constraints |-> Map("alt" :> List(bs)), attrs |-> attrs] :
        bs \in Lists(Branches, MaxAlts),
        attrs \in {"alt" :> v : v \in AttrValues \cup {Map(("a" :> Str("pci")) @@ ("b" :> Str("usb")))}}}
      \cup {[constraints |-> List(bs), attrs |-> attrs] :
        bs \in Lists(MapBranches, MaxAlts),
        attrs \in {<<>>} \cup [{"a"} -> {Str("usb"), Str("pci")}]
                    \cup [{"a", "b"} -> {Str("usb"), Str("pci")}]}

\* A regexp or a map constraint under the key l, checked against a list of
\* at most MaxListLen elements: scalars, maps, nil and lists.
ListInputs ==
    {[constraints |-> Map("l" :> c), attrs |-> ("l" :> List(l))] :
        c \in {Str("usb"), Map("a" :> Str("usb"))},
        l \in Lists({Str("usb"), Str("pci"), Bool(TRUE), Nil, Map("a" :> Str("usb")),
                     Map("a" :> Str("pci")), List(<<>>), List(<<Str("usb")>>),
                     List(<<Str("usb"), Str("pci")>>),
                     List(<<Map("a" :> Str("usb"))>>)}, MaxListLen)}

CheckInputs ==
    {i @@ [NoReq EXCEPT !.op = "Check"] :
        i \in {[constraints |-> Map(node), attrs |-> attrs] :
                  node \in MapNodes, attrs \in AttrMaps}
               \cup RegexpInputs \cup AltInputs \cup ListInputs}

\* Check runs once more on the same compiled constraints and the same
\* attributes.
DoCheckAgain ==
    /\ req.op = "Check"
    /\ resp.type = "return"
    /\ "again" \notin DOMAIN resp
    /\ \E r \in Check(req.constraints, req.attrs) :
        resp' = [again |-> r] @@ resp
    /\ UNCHANGED <<changes, tasks, inflight, lock, ensureBefore, forceDevMode, req, auxVars>>

\* The constraint trees of depth d at most: a regexp, a value that is no
\* constraint, a map of one key or none, a list of none, one or two
\* elements.
RECURSIVE Trees(_)
Trees(d) ==
    IF d = 0 THEN {Str("usb"), IntVal(1)}
    ELSE LET below == Trees(d - 1) IN
         {Str("usb"), IntVal(1), Map(<<>>), List(<<>>)}
            \cup {Map("k" :> x) : x \in below}
            \cup {List(<<x>>) : x \in below}
            \cup {List(<<x, Map("k" :> Str("usb"))>>) : x \in below}
            \cup {List(<<Map("k" :> Str("usb")), x>>) : x \in below}

CompileInputs ==
    {[constraints |-> x] @@ [NoReq EXCEPT !.op = "Compile"] : x \in Trees(MaxDepth)}

\* compileAttributeConstraints runs on the constraint tree at hand.
DoCompile ==
    /\ req.op = "Compile"
    /\ resp = NoResp
    /\ resp' = [result |-> compileAttributeConstraints(req.constraints)]
                   @@ [NoResp EXCEPT !.type = "return"]
    /\ UNCHANGED <<changes, tasks, inflight, lock, ensureBefore, forceDevMode, req, auxVars>>

\* Check runs on the constraints and attributes at hand.
DoCheck ==
    /\ req.op = "Check"
    /\ resp = NoResp
    /\ \E r \in Check(req.constraints, req.attrs) :
        resp' = [result |-> r] @@ [NoResp EXCEPT !.type = "return"]
    /\ UNCHANGED <<changes, tasks, inflight, lock, ensureBefore, forceDevMode, req, auxVars>>

\* ------------------------------------------------------------ device assertions
\* An assertion under assembly is its headers, a map from header names to
\* strings (Str) and lists (List), and the id of the key that signed it.

\* assertionBase.HeaderString: the header when it is a string, else ""
HeaderString(a, name) ==
    IF name \in DOMAIN a.headers /\ "str" \in DOMAIN a.headers[name]
    THEN a.headers[name].str
    ELSE ""

AuthorityID(a) == HeaderString(a, "authority-id")
SignKeyID(a) == a.signKeyID

\* The checks of a header return its value and an empty error, or the error.
checkNotEmptyString(headers, name) ==
    IF name \notin DOMAIN headers THEN [value |-> "", err |-> "header is mandatory"]
    ELSE IF "str" \notin DOMAIN headers[name] THEN [value |-> "", err |-> "header must be a string"]
    ELSE IF headers[name].str = "" THEN [value |-> "", err |-> "header should not be empty"]
    ELSE [value |-> headers[name].str, err |-> ""]

checkOptionalString(headers, name) ==
    IF name \notin DOMAIN headers THEN [value |-> "", err |-> ""]
    ELSE IF "str" \notin DOMAIN headers[name] THEN [value |-> "", err |-> "header must be a string"]
    ELSE [value |-> headers[name].str, err |-> ""]

checkStringList(headers, name) ==
    IF name \notin DOMAIN headers THEN [value |-> <<>>, err |-> ""]
    ELSE IF "list" \notin DOMAIN headers[name]
    THEN [value |-> <<>>, err |-> "header must be a list of strings"]
    ELSE [value |-> headers[name].list, err |-> ""]

\* The timestamps that parse as RFC3339 dates.
ValidDates == {"2016-01-02T15:04:05Z"}

checkRFC3339Date(headers, name) ==
    LET s == checkNotEmptyString(headers, name) IN
    IF s.err # "" THEN s
    ELSE IF s.value \notin ValidDates
    THEN [value |-> "", err |-> "header is not a RFC3339 date"]
    ELSE s

\* The encoded public keys that decode, and the id each key computes for
\* itself, the digest of its own encoding.
KeyIDs == ("pubkey1" :> "sha3-of-pubkey1") @@ ("pubkey2" :> "sha3-of-pubkey2")

DecodePublicKey(encoded) ==
    IF encoded \in DOMAIN KeyIDs THEN [key |-> encoded, err |-> ""]
    ELSE [key |-> "", err |-> "cannot decode public key"]

ID(pubKey) == KeyIDs[pubKey]

\* What an assembler returns: the assertion and no error, or nil and the
\* error.
Assembled(a, extra) == [assertion |-> [base |-> a] @@ extra, err |-> ""]
NotAssembled(err) == [assertion |-> Nil, err |-> err]

\* Faulty variant of checkAuthorityMatchesBrand: an assertion without a
\* brand-id passes.
checkAuthorityMatchesBrandIfSet(a) ==
    IF HeaderString(a, "brand-id") # "" /\ HeaderString(a, "brand-id") # AuthorityID(a)
    THEN "authority-id and brand-id must match"
    ELSE ""

checkAuthorityMatchesBrand(a) ==
    IF HeaderString(a, "brand-id") # AuthorityID(a)
    THEN "authority-id and brand-id must match"
    ELSE ""

modelMandatory == <<"architecture", "gadget", "kernel">>

assembleModel(a) ==
    LET err == checkAuthorityMatchesBrand(a)
        missing == {i \in DOMAIN modelMandatory :
                       checkNotEmptyString(a.headers, modelMandatory[i]).err # ""}
        first == CHOOSE i \in missing : \A j \in missing : i <= j
        store == checkOptionalString(a.headers, "store")
        reqSnaps == checkStringList(a.headers, "required-snaps")
        timestamp == checkRFC3339Date(a.headers, "timestamp")
    IN IF err # "" THEN NotAssembled(err)
       ELSE IF missing # {}
       THEN NotAssembled(checkNotEmptyString(a.headers, modelMandatory[first]).err)
       ELSE IF store.err # "" THEN NotAssembled(store.err)
       ELSE IF reqSnaps.err # "" THEN NotAssembled(reqSnaps.err)
       ELSE IF timestamp.err # "" THEN NotAssembled(timestamp.err)
       ELSE Assembled(a, [requiredSnaps |-> reqSnaps.value, timestamp |-> timestamp.value])

\* Faulty variant of assembleSerial: the key id header is not compared with
\* the key.
assembleSerialAnyKeyID(a) ==
    LET err == checkAuthorityMatchesBrand(a)
        encodedKey == checkNotEmptyString(a.headers, "device-key")
        pubKey == DecodePublicKey(encodedKey.value)
        keyID == checkNotEmptyString(a.headers, "device-key-sha3-384")
        timestamp == checkRFC3339Date(a.headers, "timestamp")
    IN IF err # "" THEN NotAssembled(err)
       ELSE IF encodedKey.err # "" THEN NotAssembled(encodedKey.err)
       ELSE IF pubKey.err # "" THEN NotAssembled(pubKey.err)
       ELSE IF keyID.err # "" THEN NotAssembled(keyID.err)
       ELSE IF timestamp.err # "" THEN NotAssembled(timestamp.err)
       ELSE Assembled(a, [timestamp |-> timestamp.value, pubKey |-> pubKey.key])

assembleSerial(a) ==
    LET err == checkAuthorityMatchesBrand(a)
        encodedKey == checkNotEmptyString(a.headers, "device-key")
        pubKey == DecodePublicKey(encodedKey.value)
        keyID == checkNotEmptyString(a.headers, "device-key-sha3-384")
        timestamp == checkRFC3339Date(a.headers, "timestamp")
    IN IF err # "" THEN NotAssembled(err)
       ELSE IF encodedKey.err # "" THEN NotAssembled(encodedKey.err)
       ELSE IF pubKey.err # "" THEN NotAssembled(pubKey.err)
       ELSE IF keyID.err # "" THEN NotAssembled(keyID.err)
       ELSE IF keyID.value # ID(pubKey.key)
       THEN NotAssembled("device key does not match provided key id")
       ELSE IF timestamp.err # "" THEN NotAssembled(timestamp.err)
       ELSE Assembled(a, [timestamp |-> timestamp.value, pubKey |-> pubKey.key])

serialRequestMandatory == <<"brand-id", "model", "request-id">>

assembleSerialRequest(a) ==
    LET missing == {i \in DOMAIN serialRequestMandatory :
                       checkNotEmptyString(a.headers, serialRequestMandatory[i]).err # ""}
        first == CHOOSE i \in missing : \A j \in missing : i <= j
        serial == checkOptionalString(a.headers, "serial")
        encodedKey == checkNotEmptyString(a.headers, "device-key")
        pubKey == DecodePublicKey(encodedKey.value)
    IN IF missing # {}
       THEN NotAssembled(checkNotEmptyString(a.headers, serialRequestMandatory[first]).err)
       ELSE IF serial.err # "" THEN NotAssembled(serial.err)
       ELSE IF encodedKey.err # "" THEN NotAssembled(encodedKey.err)
       ELSE IF pubKey.err # "" THEN NotAssembled(pubKey.err)
       ELSE IF ID(pubKey.key) # SignKeyID(a)
       THEN NotAssembled("device key does not match included signing key id")
       ELSE Assembled(a, [pubKey |-> pubKey.key])

\* The assembler of each assertion type.
assemble(type, a) ==
    IF type = "model" THEN assembleModel(a)
    ELSE IF type = "serial" THEN assembleSerial(a)
    ELSE assembleSerialRequest(a)

\* The headers an assertion may come with: each of the names left out or
\* with one of its values.
RECURSIVE HeaderMaps(_, _)
HeaderMaps(names, choices) ==
    IF names = <<>> THEN {<<>>}
    ELSE LET rest == HeaderMaps(Tail(names), choices) IN
         rest \cup {(Head(names) :> v) @@ h : h \in rest, v \in choices[Head(names)]}

Brands == {Str("canonical"), Str("other")}
Texts == {Str(""), Str("x")}
Dates == {Str("2016-01-02T15:04:05Z"), Str("yesterday")}
EncodedKeys == {Str("pubkey1"), Str("pubkey2"), Str("garbage"), Str("")}
KeyIDHeaders == {Str("sha3-of-pubkey1"), Str("sha3-of-pubkey2"), Str("")}

\* The assertions handed to the assemblers; the authority-id of a model or
\* serial is a non-empty string by the time its assembler runs.
ModelInputs ==
    {[type |-> "model", signKeyID |-> "sha3-of-pubkey1",
      headers |-> ("authority-id" :> b) @@ h] :
        b \in Brands,
        h \in HeaderMaps(<<"brand-id", "architecture", "gadget", "kernel", "store",
                           "required-snaps", "timestamp">>,
                         ("brand-id" :> Brands \cup {List(<<>>)})
                           @@ ("architecture" :> Texts) @@ ("gadget" :> Texts)
                           @@ ("kernel" :> Texts)
                           @@ ("store" :> {Str("x"), List(<<>>)})
                           @@ ("required-snaps" :> {List(<<"x">>), Str("x")})
                           @@ ("timestamp" :> Dates))}

SerialInputs ==
    {[type |-> "serial", signKeyID |-> "sha3-of-pubkey1",
      headers |-> ("authority-id" :> b) @@ h] :
        b \in Brands,
        h \in HeaderMaps(<<"brand-id", "device-key", "device-key-sha3-384", "timestamp">>,
                         ("brand-id" :> Brands \cup {List(<<>>)})
                           @@ ("device-key" :> EncodedKeys)
                           @@ ("device-key-sha3-384" :> KeyIDHeaders)
                           @@ ("timestamp" :> Dates))}

SerialRequestInputs ==
    {[type |-> "serial-request", signKeyID |-> k, headers |-> h] :
        k \in {"sha3-of-pubkey1", "sha3-of-pubkey2", "sha3-of-pubkey3"},
        h \in HeaderMaps(<<"brand-id", "model", "request-id", "serial", "device-key">>,
                         ("brand-id" :> {Str("canonical"), Str("")})
                           @@ ("model" :> Texts) @@ ("request-id" :> Texts)
                           @@ ("serial" :> {Str("x"), List(<<>>)})
                           @@ ("device-key" :> EncodedKeys))}

AssembleInputs ==
    {i @@ [NoReq EXCEPT !.op = "Assemble"] :
        i \in ModelInputs \cup SerialInputs \cup SerialRequestInputs}

\* The assembler of its type runs on the assertion at hand.
DoAssemble ==
    /\ req.op = "Assemble"
    /\ resp = NoResp
    /\ resp' = [result |-> assemble(req.type, req)] @@ [NoResp EXCEPT !.type = "return"]
    /\ UNCHANGED <<changes, tasks, inflight, lock, ensureBefore, forceDevMode, req, auxVars>>

\* ------------------------------------------------------------ the state lock
\* Handlers run side by side, one goroutine per request, next to the Ensure
\* worker.  What matters of a handler here is the order of its operations on
\* the state lock, on the store and on Changes and Tasks, one sequence for
\* each path through its code.
MaxRequests == 2
Requests == 1..MaxRequests
Worker == MaxRequests + 1
Procs == 1..Worker

\* the calls that go to the package store over the network
StoreOps ==
    {"Find", "Snap", "ListRefresh", "Assertion", "Buy", "PaymentMethods",
     "ReadyToBuy", "LoginUser", "UserInfo"}

\* the operations that create, read or change a Change or a Task
ChangeOps ==
    {"Builder", "NewChange", "AddAll", "Set", "Abort", "SetStatus", "Status", "Tasks",
     "Get", "Change", "Changes", "filter", "change2changeInfo"}

\* Faulty variant of getStoreOps: the deferred Unlock is missing.
getStoreOpsNoUnlock == <<"Lock", "State">>

\* getStore: snapstate.Store(st) between Lock and the deferred Unlock
getStoreOps == <<"Lock", "State", "Unlock">>

\* snapstate.RefreshCandidates, called with the state lock held: it drops the
\* lock around the store's ListRefresh.
RefreshCandidatesOps == <<"State", "Unlock", "ListRefresh", "Lock">>

\* assertstate.RefreshSnapDeclarations, called with the state lock held: it
\* drops the lock to fetch the assertions and adds them under the lock.
RefreshSnapDeclarationsOps == <<"State", "Unlock", "Assertion", "Lock", "State">>

loginUserOps == {<<"LoginUser">>, <<"LoginUser", "Lock", "State", "Unlock">>}

searchStoreOps == {getStoreOps \o <<"Find">>}

findOneOps == {getStoreOps \o <<"Snap">>}

storeUpdatesOps == {<<"Lock">> \o RefreshCandidatesOps \o <<"Unlock">>}

\* newChange: NewChange, AddAll for the task-sets, Set("snap-names")
newChangeOps == <<"NewChange", "AddAll", "Set">>

\* The paths of a handler's locked section after prefix: the builder fails,
\* or the Change is made of its task-sets and the Ensure loop is woken.
BuildPaths(prefix, change) ==
    {<<"Lock">> \o prefix \o <<"Builder", "Unlock">>,
     <<"Lock">> \o prefix \o <<"Builder">> \o change \o <<"State", "Unlock">>}

\* postSnap: an unknown action; a refresh, which calls
\* RefreshSnapDeclarations first and may stop there; any other action
postSnapOps ==
    {<<"Lock", "Unlock">>, <<"Lock">> \o RefreshSnapDeclarationsOps \o <<"Unlock">>}
    \cup BuildPaths(RefreshSnapDeclarationsOps, newChangeOps)
    \cup BuildPaths(<<>>, newChangeOps)

\* snapsOp: as postSnap, and a Change set Done at once when nothing is to do
snapsOpOps ==
    {<<"Lock", "Unlock">>, <<"Lock">> \o RefreshSnapDeclarationsOps \o <<"Unlock">>,
     <<"Lock", "Builder", "NewChange", "SetStatus", "Set", "Unlock">>}
    \cup BuildPaths(RefreshSnapDeclarationsOps, newChangeOps \o <<"Set">>)
    \cup BuildPaths(<<>>, newChangeOps \o <<"Set">>)

trySnapOps == {<<"Lock", "Unlock">>} \cup BuildPaths(<<>>, newChangeOps \o <<"Set">>)

\* postSnaps for an upload: DeriveSideInfo reads the assertion database
postSnapsOps ==
    {<<"Lock", "State", "Unlock">>} \cup BuildPaths(<<"State">>, newChangeOps \o <<"Set">>)

setSnapConfOps == {<<"Lock", "Builder", "NewChange", "AddAll", "State", "Unlock">>}

changeInterfacesOps ==
    {<<"Lock", "Builder", "Unlock">>,
     <<"Lock", "Builder", "NewChange", "Set", "AddAll", "State", "Unlock">>}

doAssertOps == {<<"Lock", "State", "Unlock">>}

getChangeOps ==
    {<<"Lock", "Change", "Unlock">>, <<"Lock", "Change", "change2changeInfo", "Unlock">>}

\* Faulty variant of getChangesOps: the filters run on the Changes before
\* the state lock is taken.
getChangesOpsFilterFirst ==
    {<<"Changes", "filter", "Lock", "change2changeInfo", "Unlock">>}

\* getChanges: the filters are built before Lock and called in the loop
\* after it, on a list of none, one or two Changes.
getChangesOps ==
    {<<"Lock", "Changes", "Unlock">>,
     <<"Lock", "Changes", "filter", "Unlock">>,
     <<"Lock", "Changes", "filter", "change2changeInfo", "Unlock">>,
     <<"Lock", "Changes", "filter", "change2changeInfo", "filter", "change2changeInfo",
       "Unlock">>}

abortChangeOps ==
    {<<"Lock", "Change", "Unlock">>,
     <<"Lock", "Change", "Status", "Unlock">>,
     <<"Lock", "Change", "Status", "Abort", "State", "change2changeInfo", "Unlock">>}

postCreateUserOps == {<<"UserInfo">>, <<"Lock", "State", "Unlock">>}

postBuyOps == {getStoreOps \o <<"Buy">>}

getPaymentMethodsOps == {getStoreOps \o <<"PaymentMethods">>}

readyToBuyOps == {getStoreOps \o <<"ReadyToBuy">>}

HandlerOps ==
    loginUserOps \cup searchStoreOps \cup findOneOps \cup storeUpdatesOps
    \cup postSnapOps \cup snapsOpOps \cup trySnapOps \cup postSnapsOps
    \cup setSnapConfOps \cup changeInterfacesOps \cup doAssertOps
    \cup getChangeOps \cup getChangesOps \cup abortChangeOps
    \cup postCreateUserOps \cup postBuyOps \cup getPaymentMethodsOps \cup readyToBuyOps

\* One round of the Ensure loop: under the lock pick the runnable tasks and
\* set them Doing, run the handler outside the lock, record the outcome
\* under the lock.
EnsureOps ==
    <<"Lock", "Status", "SetStatus", "Unlock", "handler", "Lock", "SetStatus", "Unlock">>

\* the operation process p is at
At(p) == IF procs[p] = <<>> THEN "" ELSE Head(procs[p])

Advance(p) == procs' = [procs EXCEPT ![p] = Tail(@)]

gatewayVars ==
    <<changes, tasks, inflight, lock, ensureBefore, forceDevMode, req, resp, db, users>>

\* A request arrives and its handler starts on one of its paths.
Serve(p) ==
    /\ procs[p] = <<>>
    /\ \E ops \in HandlerOps : procs' = [procs EXCEPT ![p] = ops]
    /\ UNCHANGED <<owner, gatewayVars>>

\* The Ensure worker starts its next round.
Ensure ==
    /\ procs[Worker] = <<>>
    /\ procs' = [procs EXCEPT ![Worker] = EnsureOps]
    /\ UNCHANGED <<owner, gatewayVars>>

\* state.Lock(): blocks while the lock is taken
Acquire(p) ==
    /\ At(p) = "Lock"
    /\ owner = 0
    /\ owner' = p
    /\ Advance(p)
    /\ UNCHANGED gatewayVars

\* state.Unlock(): the mutex does not know its owner
Release(p) ==
    /\ At(p) = "Unlock"
    /\ owner # 0
    /\ owner' = 0
    /\ Advance(p)
    /\ UNCHANGED gatewayVars

\* Any other operation: it is in progress while the process is at it.
Run(p) ==
    /\ At(p) \notin {"", "Lock", "Unlock"}
    /\ Advance(p)
    /\ UNCHANGED <<owner, gatewayVars>>

\* PUT /v2/snaps/{name}/conf
SetSnapConfUpTo(cap) ==
    \E n \in {"foo", "bar"}, ok \in BOOLEAN :
        LET r == [NoReq EXCEPT !.op = "setSnapConf", !.name = n, !.bodyOK = ok] IN
        Handle(cap, r, setSnapConfPre(r), setSnapConf(changes, tasks, r))

SetSnapConf == SetSnapConfUpTo(MaxEngineChanges)

Plug(snap) == [snap |-> snap, name |-> "p"]
Slot(snap) == [snap |-> snap, name |-> "s"]

\* none, one or two plugs, and as many slots on the core snap
PlugLists == {<<>>} \cup {<<Plug(a)>> : a \in {"foo", "bar"}} \cup {<<Plug("foo"), Plug("bar")>>}
SlotLists == {<<>>, <<Slot("core")>>, <<Slot("core"), Slot("core")>>}

InterfaceRequests ==
    {[plugs |-> ps, slots |-> ss] @@ [NoReq EXCEPT !.op = "changeInterfaces", !.action = a] :
        a \in {"", "connect", "disconnect", "add"}, ps \in PlugLists, ss \in SlotLists}
    \cup {[plugs |-> <<>>, slots |-> <<>>]
          @@ [NoReq EXCEPT !.op = "changeInterfaces", !.bodyOK = FALSE]}

\* POST /v2/interfaces
ChangeInterfacesUpTo(cap) ==
    \E r \in InterfaceRequests, internal \in BOOLEAN, b \in 0..1 :
        LET pre == changeInterfacesPre(r, internal) IN
        Handle(cap, r, pre,
               IF pre = NoResp THEN changeInterfaces(changes, tasks, r, b)
               ELSE Out(changes, tasks, FALSE, pre))

ChangeInterfaces == ChangeInterfacesUpTo(MaxEngineChanges)

\* GET /v2/changes?select=...&for=...
GetChanges ==
    \E s \in {"", "all", "in-progress", "ready", "done"}, f \in {"", "foo", "bar"} :
        LET r == [select |-> s, for |-> f] @@ [NoReq EXCEPT !.op = "getChanges"] IN
        Handle(MaxEngineChanges, r, getChangesPre(r), getChanges(changes, tasks, r))

\* ------------------------------------------------------------ specifications
Init ==
    /\ changes = <<>>
    /\ tasks = <<>>
    /\ inflight = {}
    /\ lock = "free"
    /\ ensureBefore = FALSE
    /\ forceDevMode \in BOOLEAN
    /\ req = NoReq
    /\ resp = NoResp
    /\ db = EmptyDb
    /\ users = <<>>
    /\ procs = [p \in Procs |-> <<>>]
    /\ owner = 0

Engine ==
    \/ Return
    \/ EnsureTick
    \/ \E t \in TaskIds : HandlerOk(t)
    \/ \E t \in TaskIds : HandlerRetry(t)
    \/ \E t \in TaskIds : HandlerError(t)
    \/ \E t \in TaskIds : HandlerCancelled(t)

\* Every operation of the gateway, on a state of at most MaxChanges Changes.
Next ==
    \/ PostSnap
    \/ SnapsOp
    \/ PostSnaps
    \/ GetChange
    \/ AbortChange
    \/ Engine

Spec == Init /\ [][Next]_vars

\* Installs, and the requests on their Changes, on a state of at most
\* MaxEngineChanges Changes.
EngineNext ==
    \/ Install
    \/ GetChange
    \/ AbortChange
    \/ Engine

EngineSpec == Init /\ [][EngineNext]_vars

\* A running handler returns its final result.
HandlerReturns == \E t \in TaskIds : HandlerOk(t) \/ HandlerError(t)

\* The Ensure worker goes on: the next tick, or a cancelled handler's return.
WorkerStep == EnsureTick \/ \E t \in TaskIds : HandlerCancelled(t)

\* The scheduling the liveness properties rest on: a request handler that
\* holds the state lock returns and releases it; the Ensure worker gets the
\* state lock however often requests take it; running handlers end with a
\* final result after finitely many retries.
Fairness ==
    /\ WF_vars(Return)
    /\ SF_vars(WorkerStep)
    /\ SF_vars(HandlerReturns)

FairSpec == EngineSpec /\ Fairness

\* Requests served side by side, next to the Ensure worker.
LockNext ==
    \/ \E p \in Requests : Serve(p)
    \/ Ensure
    \/ \E p \in Procs : Acquire(p)
    \/ \E p \in Procs : Release(p)
    \/ \E p \in Procs : Run(p)

LockSpec == Init /\ [][LockNext]_vars

\* The assertion database and POST /v2/assertions.
AssertNext ==
    \/ DoAssert
    \/ AssertAdd
    \/ Return

AssertSpec == Init /\ [][AssertNext]_vars

\* Changes made for interfaces and configuration, the Ensure loop working on
\* them, their aborts, and the list of Changes.
ChangesNext ==
    \/ SetSnapConf
    \/ ChangeInterfaces
    \/ GetChanges
    \/ AbortChange
    \/ Engine

ChangesSpec == Init /\ [][ChangesNext]_vars

\* Logins and logouts.
LoginNext ==
    \/ Login
    \/ Logout
    \/ Return

LoginSpec == Init /\ [][LoginNext]_vars

\* Check on any of the constraints and attribute maps, and the compiler on
\* any of the constraint trees.
AttrInit ==
    /\ changes = <<>>
    /\ tasks = <<>>
    /\ inflight = {}
    /\ lock = "free"
    /\ ensureBefore = FALSE
    /\ forceDevMode = FALSE
    /\ req \in CheckInputs \cup CompileInputs
    /\ resp = NoResp
    /\ db = EmptyDb
    /\ users = <<>>
    /\ procs = [p \in Procs |-> <<>>]
    /\ owner = 0

AttrNext ==
    \/ DoCheck
    \/ DoCheckAgain
    \/ DoCompile

AttrSpec == AttrInit /\ [][AttrNext]_vars

\* Every handler that answers async, the aborts of their Changes and the
\* Ensure loop working on them, on a state of at most MaxChanges Changes.
AsyncNext ==
    \/ PostSnap
    \/ SnapsOp
    \/ PostSnaps
    \/ SetSnapConfUpTo(MaxChanges)
    \/ ChangeInterfacesUpTo(MaxChanges)
    \/ AbortChange
    \/ Engine

AsyncSpec == Init /\ [][AsyncNext]_vars

\* The assemblers on any of the assertions.
DeviceInit ==
    /\ changes = <<>>
    /\ tasks = <<>>
    /\ inflight = {}
    /\ lock = "free"
    /\ ensureBefore = FALSE
    /\ forceDevMode = FALSE
    /\ req \in AssembleInputs
    /\ resp = NoResp
    /\ db = EmptyDb
    /\ users = <<>>
    /\ procs = [p \in Procs |-> <<>>]
    /\ owner = 0

DeviceNext == DoAssemble

DeviceSpec == DeviceInit /\ [][DeviceNext]_vars

\* ------------------------------------------------------------ properties
\* C1: in every reachable state, a task of a Change that is Doing or Done has
\* every one of its waitTasks Done.
WaitTasksDone ==
    \A t \in TaskIds :
        (tasks[t].chg # 0 /\ tasks[t].status \in {"Doing", "Done"})
            => \A w \in tasks[t].wait : tasks[w].status = "Done"

\* A task is running while the task it waits on stays Done.
WaitTasksDoneWitness ==
    \E t \in TaskIds :
        /\ tasks[t].chg # 0
        /\ tasks[t].status = "Doing"
        /\ t \in inflight
        /\ tasks[t].wait # {}

\* C2: a Change is Ready exactly when every one of its tasks is in a terminal
\* status, in the state and in every info change2changeInfo has put in a
\* Response: an info with ready=true lists no task in Do, Doing, Undo, Undoing
\* or Abort.
ReadyIffAllTerminal ==
    /\ \A c \in ChangeIds :
           change2changeInfo(changes, tasks, c).ready
               <=> \A t \in TasksOf(c) : tasks[t].status \in Terminal
    /\ resp.type = "sync" =>
           (resp.info.ready
               <=> \A t \in DOMAIN resp.info.tasks : resp.info.tasks[t] \in Terminal)

\* GET /v2/changes/{id} has reported a Change with an Error task ready.
ReadyIffAllTerminalWitness ==
    /\ req.op = "getChange"
    /\ resp.type = "sync"
    /\ resp.info.ready
    /\ \E t \in DOMAIN resp.info.tasks : resp.info.tasks[t] = "Error"

\* The undo of t starts in this step only if no task that waited on t is
\* Done, or still has its own undo ahead of it.
UndoInReverseOrder ==
    \A t \in TaskIds :
        (tasks[t].status = "Undo" /\ tasks'[t].status = "Undoing")
            => \A h \in HaltTasks(t) : tasks[h].status \notin {"Done", "Undo", "Undoing"}

\* C3: when a do handler returns a terminal error its task becomes Error, the
\* tasks of the same Change that have not started become Hold, the Done ones
\* are scheduled for undo, no task of another Change is touched; and an undo
\* starts only after every task that waited on the task is no longer Done.
ErrorCascade ==
    [][/\ \A t \in TaskIds :
              (t \in inflight /\ tasks[t].status = "Doing" /\ tasks'[t].status = "Error")
                  => \A u \in TaskIds \ {t} :
                         IF tasks[u].chg = tasks[t].chg
                         THEN /\ tasks[u].status = "Do" => tasks'[u].status = "Hold"
                              /\ tasks[u].status = "Done" => tasks'[u].status = "Undo"
                              /\ tasks'[u].status \notin {"Do", "Done"}
                         ELSE tasks'[u] = tasks[u]
       /\ UndoInReverseOrder]_vars

\* After an error, the last Done task is being undone while the task it
\* waited on, Done as well, still waits for its undo.
ErrorCascadeWitness ==
    \E x \in TaskIds, a \in TaskIds, b \in TaskIds :
        /\ tasks[x].chg = tasks[a].chg
        /\ tasks[x].chg = tasks[b].chg
        /\ tasks[x].status = "Error"
        /\ a \in tasks[b].wait
        /\ tasks[b].status = "Undoing"
        /\ tasks[a].status = "Undo"

\* The request being answered is an abort of Change c that was carried out.
AbortAccepted(c) ==
    /\ req.op = "abortChange"
    /\ req.id = c
    /\ resp.type = "sync"

ChangeReady(c) == c \in ChangeIds /\ StatusReady(ChangeStatus(c))

\* In this step POST /v2/changes/{id} {"action": "abort"} is answered for a
\* Change that is not Ready: its non-terminal tasks are marked Abort, no other
\* task changes, and EnsureBefore(0) is pending.
AbortMarksTasks ==
    \A c \in ChangeIds :
        (/\ resp = NoResp
         /\ req'.op = "abortChange"
         /\ req'.id = c
         /\ req'.action = "abort"
         /\ req'.bodyOK
         /\ ~ChangeReady(c))
            => /\ resp'.type = "sync"
               /\ resp'.status = StatusOK
               /\ Call("Abort") \in resp'.calls
               /\ \A t \in TaskIds :
                      tasks'[t] = IF tasks[t].chg = c /\ tasks[t].status \notin Terminal
                                  THEN [tasks[t] EXCEPT !.status = "Abort"]
                                  ELSE tasks[t]
               /\ ensureBefore'

\* A task marked Abort goes nowhere but to Hold.
AbortEndsInHold ==
    \A t \in TaskIds :
        tasks[t].status = "Abort" => tasks'[t].status \in {"Abort", "Hold"}

\* C4: an abort of a Change that is not Ready marks each of its non-terminal
\* tasks Abort and asks for an immediate Ensure; from then on undos start in
\* reverse edge order, the tasks marked Abort end in Hold, and the Change
\* eventually becomes Ready.
AbortLeadsToReady ==
    /\ [][AbortMarksTasks /\ UndoInReverseOrder /\ AbortEndsInHold]_vars
    /\ \A c \in 1..MaxEngineChanges : AbortAccepted(c) ~> ChangeReady(c)

\* An aborted Change has become Ready: one task was undone, another is on
\* Hold, and no handler failed.
AbortLeadsToReadyWitness ==
    \E c \in ChangeIds :
        /\ ChangeReady(c)
        /\ \E t \in TasksOf(c) : tasks[t].status = "Undone"
        /\ \E t \in TasksOf(c) : tasks[t].status = "Hold"
        /\ \A t \in TasksOf(c) : tasks[t].status # "Error"

\* C5: an abort of a Ready Change is answered 400, a request for an unknown
\* change id 404, an action other than abort 400; none of them calls
\* Change.Abort, changes a task or a Change, or wakes the Ensure loop.
AbortRejected ==
    [][(resp = NoResp /\ req'.op = "abortChange")
          => /\ req'.id \notin ChangeIds
                 => (resp'.type = "error" /\ resp'.status = StatusNotFound)
             /\ (req'.id \in ChangeIds /\ req'.bodyOK /\ req'.action # "abort")
                 => (resp'.type = "error" /\ resp'.status = StatusBadRequest)
             /\ (req'.id \in ChangeIds /\ req'.bodyOK /\ req'.action = "abort"
                 /\ ChangeReady(req'.id))
                 => (resp'.type = "error" /\ resp'.status = StatusBadRequest)
             /\ resp'.type = "error"
                 => /\ Call("Abort") \notin resp'.calls
                    /\ Call("EnsureBefore") \notin resp'.calls
                    /\ tasks' = tasks
                    /\ changes' = changes
                    /\ ensureBefore' = ensureBefore]_vars

\* The abort of a Ready Change that has tasks was answered 400.
AbortRejectedWitness ==
    /\ req.op = "abortChange"
    /\ req.action = "abort"
    /\ req.bodyOK
    /\ ChangeReady(req.id)
    /\ TasksOf(req.id) # {}
    /\ resp.type = "error"
    /\ resp.status = StatusBadRequest

\* C6: a handler that answers async answers 202 with the id of a Change it
\* created itself while holding the state lock; every task its builders
\* returned is a task of that Change, no older task or Change is touched, and
\* the Change is in the state when the Response is returned.
AsyncCarriesNewChange ==
    [][/\ (resp = NoResp /\ resp'.type = "async")
              => /\ resp'.status = StatusAccepted
                 /\ lock' = "api"
                 /\ \E call \in resp'.calls : call.fn = "NewChange"
                 /\ Len(changes') = Len(changes) + 1
                 /\ resp'.change = Len(changes')
                 /\ SubSeq(changes', 1, Len(changes)) = changes
                 /\ \A t \in DOMAIN tasks' :
                        IF t \in TaskIds THEN tasks'[t] = tasks[t]
                        ELSE tasks'[t].chg = resp'.change
       /\ (resp.type = "async" /\ resp' = NoResp)
              => /\ resp.change \in DOMAIN changes'
                 /\ lock = "api"]_vars

\* An install that also installs ubuntu-core was answered async: the Change
\* holds the tasks of both task-sets.
AsyncCarriesNewChangeWitness ==
    /\ req.op = "postSnap"
    /\ resp.type = "async"
    /\ lock = "api"
    /\ Cardinality({c \in resp.calls : c.fn = "Install"}) = 2
    /\ Cardinality(TasksOf(resp.change)) = MaxTasks

\* The request being answered is an install that was accepted as Change c.
InstallAccepted(c) ==
    /\ req.op = "postSnap"
    /\ req.action = "install"
    /\ resp.type = "async"
    /\ resp.status = StatusAccepted
    /\ resp.change = c

\* What GET /v2/changes/c answers in this state.
Reported(c) == getChange(changes, tasks, [NoReq EXCEPT !.op = "getChange", !.id = c]).resp

ReportsDone(c) ==
    /\ Reported(c).type = "sync"
    /\ Reported(c).info.status = "Done"
    /\ Reported(c).info.ready

HandlerFailed(c) == \E t \in TasksOf(c) : tasks[t].status = "Error"

\* C7 as stated: an accepted install is eventually reported Done and ready,
\* unless a handler of its Change returns an error.
InstallEventuallyDone ==
    \A c \in 1..MaxEngineChanges :
        InstallAccepted(c) ~> (ReportsDone(c) \/ HandlerFailed(c))

\* C7, amended: an accepted install is eventually reported Done and ready,
\* unless a handler of its Change returns an error or the Change is aborted;
\* once reported Done and ready it is reported so from then on.
InstallEventuallyDoneUnlessAborted ==
    /\ \A c \in 1..MaxEngineChanges :
           InstallAccepted(c) ~> (ReportsDone(c) \/ HandlerFailed(c) \/ AbortAccepted(c))
    /\ [][\A c \in ChangeIds : ReportsDone(c) => ReportsDone(c)']_vars

\* GET /v2/changes/{id} has reported an install of three tasks Done and ready.
InstallEventuallyDoneWitness ==
    /\ req.op = "getChange"
    /\ resp.type = "sync"
    /\ resp.info.status = "Done"
    /\ resp.info.ready
    /\ Cardinality(DOMAIN resp.info.tasks) = MaxTasks

\* In this step a POST /v2/snaps/{name} with devmode and jailmode both set is
\* answered.
BothModesAnswered ==
    /\ resp = NoResp
    /\ req'.op = "postSnap"
    /\ req'.devmode
    /\ req'.jailmode

\* C8 as stated: every POST /v2/snaps/{name} that sets both devmode and
\* jailmode is answered 400 with a message containing "devmode and jailmode",
\* and creates no Change.
BothModesRefused ==
    [][BothModesAnswered
          => /\ resp'.type = "error"
             /\ resp'.status = StatusBadRequest
             /\ Contains(resp'.msg, <<"devmode", "and", "jailmode">>)
             /\ changes' = changes]_vars

\* C8, amended: an install, refresh or revert that sets both devmode and
\* jailmode is answered 400 and creates no Change, no task and calls no
\* builder; the message contains "devmode and jailmode" unless the platform
\* forces devmode, where it is the refusal of jailmode.
BothModesRefusedWhereUsed ==
    [][(BothModesAnswered /\ req'.action \in {"install", "refresh", "revert"})
          => /\ resp'.type = "error"
             /\ resp'.status = StatusBadRequest
             /\ resp'.calls = {}
             /\ changes' = changes
             /\ tasks' = tasks
             /\ IF forceDevMode
                THEN Contains(resp'.msg, errNoJailMode)
                ELSE Contains(resp'.msg, <<"devmode", "and", "jailmode">>)]_vars

\* An install with both flags was refused with the conflict message.
BothModesRefusedWitness ==
    /\ req.op = "postSnap"
    /\ req.action = "install"
    /\ req.devmode
    /\ req.jailmode
    /\ ~forceDevMode
    /\ resp.type = "error"
    /\ resp.status = StatusBadRequest
    /\ Contains(resp.msg, <<"devmode", "and", "jailmode">>)

\* The requests that pass their devmode and jailmode to modeFlags.
TakesModeFlags(r) ==
    \/ r.op = "postSnap" /\ r.action \in {"install", "refresh", "revert"}
    \/ r.op = "postSnaps" /\ r.ctype = "multipart/form-data"

Builders ==
    {"Install", "Update", "Remove", "Revert", "RevertToRevision", "Enable", "Disable",
     "InstallPath", "TryPath", "UpdateMany", "InstallMany", "RemoveMany"}

\* the builders that take mode flags
FlagBuilders == {"Install", "Update", "Revert", "RevertToRevision", "InstallPath", "TryPath"}

\* On a force-devmode platform, a request that sets jailmode is refused in
\* this step with a bad request, and creates neither Change nor task.
JailModeRefused ==
    (resp = NoResp /\ resp' # NoResp /\ forceDevMode /\ req'.jailmode /\ TakesModeFlags(req'))
        => /\ resp'.type = "error"
           /\ resp'.status = StatusBadRequest
           /\ \A call \in resp'.calls : call.fn # "NewChange"
           /\ changes' = changes
           /\ tasks' = tasks

\* C9 as stated: on a force-devmode platform a request that sets jailmode is
\* refused, and every operation that is accepted carries the DevMode flag.
ForceDevModeEverywhere ==
    [][/\ JailModeRefused
       /\ (resp = NoResp /\ forceDevMode /\ resp'.type = "async")
              => \A call \in resp'.calls : call.fn \in Builders => "DevMode" \in call.flags]_vars

\* C9, amended: on a force-devmode platform a request that sets jailmode is
\* refused, and every accepted install, refresh, revert, sideload or try hands
\* the DevMode flag to the builder of the snap it names.
ForceDevModeWhereUsed ==
    [][/\ JailModeRefused
       /\ (resp = NoResp /\ forceDevMode /\ resp'.type = "async" /\ TakesModeFlags(req'))
              => /\ \E call \in resp'.calls : call.fn \in FlagBuilders /\ call.snap = req'.name
                 /\ \A call \in resp'.calls :
                        (call.fn \in FlagBuilders /\ call.snap = req'.name)
                            => (call.flags = {"DevMode"})]_vars

\* On a force-devmode platform a sideload that asks for jailmode was refused.
ForceDevModeWitness ==
    /\ forceDevMode
    /\ req.op = "postSnaps"
    /\ req.action = ""
    /\ req.jailmode
    /\ ~req.devmode
    /\ resp.type = "error"
    /\ resp.status = StatusBadRequest
    /\ resp.msg = errNoJailMode

\* C10: a JSON POST to /v2/snaps that sets channel, revision, devmode or
\* jailmode is answered 400 without taking the state lock: no builder is
\* called, no Change and no task is created, the Ensure loop is not woken.
MultiSnapOptionsRejected ==
    [][(/\ resp = NoResp
        /\ req'.op = "snapsOp"
        /\ req'.bodyOK
        /\ (req'.channel # "" \/ req'.revision \/ req'.devmode \/ req'.jailmode))
          => /\ resp'.type = "error"
             /\ resp'.status = StatusBadRequest
             /\ lock' = "free"
             /\ resp'.calls = {}
             /\ changes' = changes
             /\ tasks' = tasks
             /\ ensureBefore' = ensureBefore]_vars

\* A multi-snap refresh that sets devmode was refused, the state lock free.
MultiSnapOptionsRejectedWitness ==
    /\ req.op = "snapsOp"
    /\ req.action = "refresh"
    /\ req.devmode
    /\ resp.type = "error"
    /\ resp.status = StatusBadRequest
    /\ lock = "free"

\* A sideload upload is being answered: a multipart POST /v2/snaps that is not
\* a try action and carries the snap file.
SideloadAnswered ==
    /\ resp = NoResp
    /\ req'.op = "postSnaps"
    /\ req'.ctype = "multipart/form-data"
    /\ req'.action # "try"
    /\ resp' # NoResp

\* The Change was created from a side-info DeriveSideInfo returned.
SignedSideInfo ==
    /\ Derive("signed") \in resp'.calls
    /\ \E call \in resp'.calls : call.fn = "InstallPath" /\ call.sideInfo = "signed"
    /\ Call("unsafeReadSnapInfo") \notin resp'.calls

\* No Change, no task, and an error Response.
Rejected ==
    /\ resp'.type = "error"
    /\ changes' = changes
    /\ tasks' = tasks

\* C11 as stated: a sideload upload without the dangerous flag creates a
\* Change only from a signed side-info, and is rejected without a Change when
\* none can be derived.
SideloadNeedsSignature ==
    [][(SideloadAnswered /\ ~req'.dangerous)
          => /\ changes' # changes => SignedSideInfo
             /\ Derive("none") \in resp'.calls => Rejected]_vars

\* C11: a sideload upload with neither the dangerous flag nor the devmode
\* flag creates a Change only from a signed side-info derived through the
\* assertion database, and is rejected without a Change when none can be
\* derived.
SideloadNeedsSignatureUnlessDevMode ==
    [][(SideloadAnswered /\ ~req'.dangerous /\ ~req'.devmode)
          => /\ changes' # changes => SignedSideInfo
             /\ Derive("none") \in resp'.calls => Rejected]_vars

\* A sideload upload with neither flag was accepted, its Change made from the
\* signed side-info.
SideloadNeedsSignatureWitness ==
    /\ req.op = "postSnaps"
    /\ req.action # "try"
    /\ ~req.dangerous
    /\ ~req.devmode
    /\ resp.type = "async"
    /\ Derive("signed") \in resp.calls
    /\ \E call \in resp.calls : call.fn = "InstallPath" /\ call.sideInfo = "signed"
    /\ resp.change \in DOMAIN changes

\* An install or a sideload of a package other than ubuntu-core is accepted
\* while snapstateGet finds no ubuntu-core in the state.
BootstrapAccepted ==
    /\ resp = NoResp
    /\ \/ req'.op = "postSnap" /\ req'.action = "install"
       \/ req'.op = "postSnaps" /\ req'.action # "try"
    /\ req'.name # "ubuntu-core"
    /\ Get("ErrNoState") \in resp'.calls
    /\ resp'.type = "async"

\* The tasks of Change c that install snap, in the state ts.
SnapTasks(ts, c, snap) == {t \in DOMAIN ts : ts[t].chg = c /\ ts[t].snap = snap}

\* The new Change is made of a bootstrap task-set followed by the package's
\* task-set, every task of which waits on every bootstrap task.
BootstrapFirst ==
    LET c == resp'.change
        boot == SnapTasks(tasks', c, "ubuntu-core")
        pkg == SnapTasks(tasks', c, req'.name)
    IN /\ c \in DOMAIN changes' /\ c \notin DOMAIN changes
       /\ boot # {}
       /\ pkg # {}
       /\ TasksOfIn(tasks', c) = boot \cup pkg
       /\ \E call \in resp'.calls : call.fn = "Install" /\ call.snap = "ubuntu-core"
       /\ \A p \in pkg : \A b \in boot : b < p /\ b \in tasks'[p].wait

\* No task of a package is Doing or Done while a bootstrap task of its Change
\* is not Done.
PackageAfterBootstrap ==
    \A p \in TaskIds : \A b \in TaskIds :
        (/\ tasks[p].chg # 0
         /\ tasks[b].chg = tasks[p].chg
         /\ tasks[b].snap = "ubuntu-core"
         /\ tasks[p].snap # "ubuntu-core"
         /\ tasks[p].status \in {"Doing", "Done"})
            => tasks[b].status = "Done"

\* C12: an install or sideload of a package other than ubuntu-core, accepted
\* while ubuntu-core has no entry in the state, creates a Change of a
\* bootstrap task-set installing ubuntu-core followed by the package's
\* task-set, every package task waiting on every bootstrap task; and no
\* package task is ever Doing or Done before all bootstrap tasks are Done.
BootstrapBeforePackage ==
    /\ [][BootstrapAccepted => BootstrapFirst]_vars
    /\ []PackageAfterBootstrap

\* A package task runs or is done in a Change that has bootstrap tasks, all
\* of them Done.
BootstrapBeforePackageWitness ==
    \E p \in TaskIds : \E b \in TaskIds :
        /\ tasks[p].chg # 0
        /\ tasks[b].chg = tasks[p].chg
        /\ tasks[b].snap = "ubuntu-core"
        /\ tasks[p].snap = "foo"
        /\ b \in tasks[p].wait
        /\ tasks[p].status \in {"Doing", "Done"}
        /\ tasks[b].status = "Done"

ChangeAccessUnderLock ==
    \A p \in Requests : At(p) \in ChangeOps => owner = p

\* A request runs the filters of the change list under the lock while another
\* request waits for the lock and the Ensure worker runs a task handler.
ChangeAccessUnderLockWitness ==
    \E p \in Requests : \E q \in Requests :
        /\ At(p) = "filter"
        /\ owner = p
        /\ At(q) = "Lock"
        /\ At(Worker) = "handler"

\* C15: the database never goes back to a lower revision of a key; an Add of
\* a sound assertion newer than the stored one stores it; an Add of an
\* assertion older than the stored one is rejected with revision-regression
\* and leaves the database unchanged.
AddKeepsHigherRevision ==
    [][/\ \A k \in AssertKeys : db'[k] >= db[k]
       /\ (resp = NoResp /\ req'.op = "Add")
             => LET a == req'.batch[1] IN
                /\ (a.flaw = "" /\ a.rev > db[a.key])
                      => resp'.msg = <<"">> /\ db' = [db EXCEPT ![a.key] = a.rev]
                /\ a.rev < db[a.key]
                      => resp'.msg \in {<<errRevision>>, <<a.flaw>>} /\ db' = db
                /\ (a.flaw = "" /\ a.rev < db[a.key]) => resp'.msg = <<errRevision>>]_vars

\* An older revision of a stored assertion was rejected, the newer one kept.
AddKeepsHigherRevisionWitness ==
    /\ req.op = "Add"
    /\ req.batch[1].flaw = ""
    /\ req.batch[1].rev < db[req.batch[1].key]
    /\ resp.msg = <<errRevision>>

\* C16: POST /v2/assertions adds every assertion of the batch, or leaves the
\* database as it was and answers 400 with the error of the first assertion
\* that cannot be added; a body that does not parse is answered 400 before
\* the state lock is taken and before anything is added.
BatchAllOrNothing ==
    [][(resp = NoResp /\ req'.op = "doAssert")
          => IF ~req'.bodyOK
             THEN /\ resp'.type = "error" /\ resp'.status = StatusBadRequest
                  /\ lock' = "free"
                  /\ db' = db
             ELSE \/ /\ resp'.type = "sync" /\ resp'.status = StatusOK
                     /\ \A i \in DOMAIN req'.batch :
                           /\ req'.batch[i].flaw = ""
                           /\ db'[req'.batch[i].key] >= req'.batch[i].rev
                     /\ \A k \in AssertKeys :
                           \/ db'[k] = db[k]
                           \/ \E i \in DOMAIN req'.batch :
                                 req'.batch[i].key = k /\ req'.batch[i].rev = db'[k]
                  \/ /\ resp'.type = "error" /\ resp'.status = StatusBadRequest
                     /\ db' = db
                     /\ \E i \in DOMAIN req'.batch :
                           /\ resp'.msg[4] = i
                           /\ \E same \in {"", errRevision} :
                                 LET r == AddEach(db, req'.batch, same, 1) IN
                                 r.at = i /\ r.err = resp'.msg[3]]_vars

\* A batch whose first assertion can be added and whose second cannot was
\* answered 400 and the database holds neither.
BatchAllOrNothingWitness ==
    /\ req.op = "doAssert"
    /\ req.bodyOK
    /\ Len(req.batch) = 2
    /\ resp.type = "error"
    /\ resp.msg[4] = 2
    /\ req.batch[1].rev > db[req.batch[1].key]

\* The ids of the Changes a list Response carries.
Listed(r) == {r.info[i].id : i \in DOMAIN r.info}

\* C17: GET /v2/changes with select=in-progress, or without select, and
\* for=N returns exactly the Changes that are not Ready and whose snap-names
\* contains N, and so never a Change without snap-names; a select other
\* than all, in-progress or ready is answered 400.
ChangesFilter ==
    [][(resp = NoResp /\ req'.op = "getChanges")
          => /\ (req'.select \in {"", "in-progress"} /\ req'.for # "")
                   => /\ resp'.type = "sync"
                      /\ Listed(resp') =
                            {c \in ChangeIds :
                                /\ ~StatusReady(ChangeStatus(c))
                                /\ "snap-names" \in DOMAIN changes[c].data
                                /\ \E i \in DOMAIN changes[c].data["snap-names"] :
                                      changes[c].data["snap-names"][i] = req'.for}
                      /\ Len(resp'.info) = Cardinality(Listed(resp'))
                      /\ \A i \in DOMAIN resp'.info :
                            resp'.info[i] = change2changeInfo(changes, tasks, resp'.info[i].id)
             /\ req'.for # ""
                   => \/ resp'.type = "error"
                      \/ \A c \in Listed(resp') : "snap-names" \in DOMAIN changes[c].data
             /\ req'.select \notin {"", "all", "in-progress", "ready"}
                   => /\ resp'.type = "error"
                      /\ resp'.status = StatusBadRequest
                      /\ lock' = "free"]_vars

\* The list for foo in progress holds one of two Changes in progress: the
\* other has no snap-names.
ChangesFilterWitness ==
    /\ req.op = "getChanges"
    /\ req.select = ""
    /\ req.for = "foo"
    /\ resp.type = "sync"
    /\ Len(resp.info) = 1
    /\ Len(changes) = 2
    /\ \A c \in ChangeIds : ~StatusReady(ChangeStatus(c))
    /\ \E c \in ChangeIds : "snap-names" \notin DOMAIN changes[c].data

\* A decoded connect or disconnect request with exactly one plug and one slot
\* is being answered.
OneToOne ==
    /\ resp = NoResp
    /\ req'.op = "changeInterfaces"
    /\ req'.bodyOK
    /\ req'.action \in {"connect", "disconnect"}
    /\ Len(req'.plugs) = 1
    /\ Len(req'.slots) = 1

\* The request is answered 202 and one Change was made, with kind
\* <action>-snap, the summary naming both ends, and snap-names [a, b].
InterfaceChangeMade ==
    LET plug == req'.plugs[1]
        slot == req'.slots[1]
        c == Len(changes) + 1
        summary == IF req'.action = "connect"
                   THEN <<"Connect ", plug.snap, ":", plug.name, " to ", slot.snap, ":", slot.name>>
                   ELSE <<"Disconnect ", plug.snap, ":", plug.name, " from ", slot.snap, ":", slot.name>>
    IN /\ resp'.type = "async"
       /\ resp'.status = StatusAccepted
       /\ resp'.change = c
       /\ Len(changes') = c
       /\ SubSeq(changes', 1, Len(changes)) = changes
       /\ {call \in resp'.calls : call.fn = "NewChange"}
             = {NewChangeCall(<<req'.action, "snap">>, summary)}
       /\ "snap-names" \in DOMAIN changes'[c].data
       /\ changes'[c].data["snap-names"] = <<plug.snap, slot.snap>>

\* A request with more than one plug or slot, with no plug or slot, or with
\* an empty or unsupported action creates no Change.
NoInterfaceChange ==
    (/\ resp = NoResp
     /\ req'.op = "changeInterfaces"
     /\ \/ Len(req'.plugs) # 1
        \/ Len(req'.slots) # 1
        \/ req'.action \notin {"connect", "disconnect"})
        => /\ resp'.type = "error"
           /\ changes' = changes
           /\ tasks' = tasks
           /\ \A call \in resp'.calls : call.fn # "NewChange"

\* C18 as stated: every connect or disconnect request with one plug and one
\* slot is answered 202 and creates the Change.
InterfaceChange ==
    [][(OneToOne => InterfaceChangeMade) /\ NoInterfaceChange]_vars

\* C18: a connect or disconnect request with exactly one plug and one slot
\* is answered 202 and creates exactly one Change with kind <action>-snap,
\* summary "Connect a:p to b:s" or "Disconnect a:p from b:s" and snap-names
\* [a, b], unless ifacestate refuses it, when it is answered 400 with that
\* error and creates no Change; a request with more than one plug or slot,
\* with none, or with an empty or unsupported action creates no Change.
InterfaceChangeUnlessRefused ==
    [][/\ OneToOne
          => \/ InterfaceChangeMade
             \/ /\ resp'.type = "error"
                /\ resp'.status = StatusBadRequest
                /\ resp'.msg = errBuilder
                /\ changes' = changes
                /\ tasks' = tasks
       /\ NoInterfaceChange]_vars

\* A disconnect of bar:p from core:s was answered 202 with its Change.
InterfaceChangeWitness ==
    /\ req.op = "changeInterfaces"
    /\ req.action = "disconnect"
    /\ Len(req.plugs) = 1
    /\ Len(req.slots) = 1
    /\ resp.type = "async"
    /\ resp.change \in DOMAIN changes
    /\ changes[resp.change].data["snap-names"] = <<"bar", "core">>

\* The store was asked to log the user in.
StoreContacted(r) == \E call \in r.calls : call.fn = "store.LoginUser"

\* C19: a login whose user name does not look like an email address is
\* answered 400 with kind invalid-auth-data without a call to the store; a
\* user record is created only when the store login succeeded; every
\* rejected login leaves the user records unchanged.
LoginRejections ==
    [][(resp = NoResp /\ req'.op = "loginUser")
          => /\ (req'.bodyOK /\ ~isEmailish(req'.username))
                   => /\ resp'.type = "error"
                      /\ resp'.status = StatusBadRequest
                      /\ resp'.kind = "invalid-auth-data"
                      /\ ~StoreContacted(resp')
                      /\ lock' = lock
             /\ users' # users
                   => /\ StoreLogin("nil") \in resp'.calls
                      /\ resp'.type = "sync"
                      /\ users' = Append(users, [username |-> req'.username])
             /\ resp'.type = "error" => users' = users
             /\ (StoreContacted(resp') /\ StoreLogin("nil") \notin resp'.calls)
                   => /\ resp'.type = "error"
                      /\ resp'.status \in {StatusBadRequest, StatusUnauthorized}
                      /\ Call("auth.NewUser") \notin resp'.calls]_vars

\* A login as "a.a.", which has no "@", was answered 400 invalid-auth-data
\* with the store left alone and the user record of an earlier login kept.
LoginRejectionsWitness ==
    /\ req.op = "loginUser"
    /\ req.bodyOK
    /\ req.username = <<"a", ".", "a", ".">>
    /\ resp.kind = "invalid-auth-data"
    /\ resp.calls = {}
    /\ Len(users) = 1

\* Check has run on the map node and the attribute map of the request.
Checked == req.op = "Check" /\ resp.type = "return"

\* Check has run on constraints that are a map node.
NodeChecked == Checked /\ "map" \in DOMAIN req.constraints

\* Key k of the node is present and not nil in the attribute map, and its
\* constraint matches the value.
EntryMatches(k) ==
    /\ k \in DOMAIN req.attrs
    /\ req.attrs[k] # Nil
    /\ Ok \in match(<<k>>, compileAttrMatcher(TRUE, FALSE, req.constraints.map[k]),
                    req.attrs[k])

\* The attribute map without the keys the node does not mention.
Mentioned == [k \in DOMAIN req.attrs \cap DOMAIN req.constraints.map |-> req.attrs[k]]

\* C20: Check on a map node succeeds exactly if every key of the node is
\* present and not nil in the attribute map and its constraint matches the
\* value; the keys the node does not mention change nothing; a failure names
\* the path of a key of the node that fails; {bus: usb, speed: [high, full]}
\* accepts {bus: usb, speed: full} and fails on {bus: pci, speed: full}
\* naming bus.
MapNodeMatches ==
    NodeChecked
       => /\ resp.result = Ok <=> \A k \in DOMAIN req.constraints.map : EntryMatches(k)
          /\ resp.result \in Check(req.constraints, Mentioned)
          /\ resp.result # Ok
                => /\ resp.result.path # <<>>
                   /\ resp.result.path[1] \in DOMAIN req.constraints.map
                   /\ ~EntryMatches(resp.result.path[1])
          /\ req.constraints = Map(("bus" :> Str("usb"))
                                   @@ ("speed" :> List(<<Str("high"), Str("full")>>)))
                => /\ req.attrs = ("bus" :> Str("usb")) @@ ("speed" :> Str("full"))
                      => resp.result = Ok
                   /\ req.attrs = ("bus" :> Str("pci")) @@ ("speed" :> Str("full"))
                      => resp.result # Ok /\ resp.result.path = <<"bus">>

\* {bus: usb, speed: [high, full]} was checked against {bus: pci, speed:
\* full, extra: usb} and failed naming bus.
MapNodeMatchesWitness ==
    /\ Checked
    /\ req.constraints = Map(("bus" :> Str("usb"))
                             @@ ("speed" :> List(<<Str("high"), Str("full")>>)))
    /\ req.attrs = ("bus" :> Str("pci")) @@ ("speed" :> Str("full")) @@ ("extra" :> Str("usb"))
    /\ resp.result # Ok
    /\ resp.result.path = <<"bus">>


\* Check has run on a regexp leaf and a scalar value.
LeafChecked ==
    /\ NodeChecked
    /\ DOMAIN req.constraints.map = {"leaf"}
    /\ "str" \in DOMAIN req.constraints.map["leaf"]

\* The scalar as the leaf renders it.
Rendered ==
    LET v == req.attrs["leaf"] IN
    IF "str" \in DOMAIN v THEN v.str
    ELSE IF "bool" \in DOMAIN v THEN FormatBool(v.bool)
    ELSE Itoa(v.int)

\* The whole of s, from its first character to its last, matches pattern p:
\* s is in the language of one of p's alternatives.
WholeMatch(p, s) == \E b \in Alternatives(p) : MatchAt(b \o "$", s, 1)

\* C21: a regexp leaf with pattern p accepts a scalar exactly if the whole
\* rendered string matches p, never a mere prefix, suffix or substring.
RegexpLeafWholeMatch ==
    LeafChecked => (resp.result = Ok <=> WholeMatch(req.constraints.map["leaf"].str, Rendered))


\* The leaf a|b was checked against the string ab and accepted it: ^a|b$
\* matches from the first character on.
RegexpLeafPrefixAccepted ==
    /\ LeafChecked
    /\ req.constraints.map["leaf"].str = "a|b"
    /\ req.attrs["leaf"] = Str("ab")
    /\ resp.result = Ok


\* Check has run on an alternatives node: the node under the key alt and the
\* value of that key, or the node at the top and the whole attribute map.
AltsBelowKey ==
    /\ NodeChecked
    /\ DOMAIN req.constraints.map = {"alt"}
    /\ req.attrs["alt"] # Nil
AltsAtTop == Checked /\ "list" \in DOMAIN req.constraints

\* The branches, the value and the context of the alternatives node checked.
AltBranches ==
    IF AltsAtTop THEN req.constraints.list ELSE req.constraints.map["alt"].list
AltValue == IF AltsAtTop THEN Map(req.attrs) ELSE req.attrs["alt"]
AltContext == IF AltsAtTop THEN <<>> ELSE <<"alt">>

\* What branch i alone returns on the value.
BranchResults(i) ==
    match(AltContext, compileAttrMatcher(~AltsAtTop, TRUE, AltBranches[i]), AltValue)

\* C22: an alternatives node matches a value exactly if at least one of its
\* branches matches it; when none matches, the diagnostic is the
\* no-alternative-matches error at the node's context and reports the error
\* of the first branch.
AlternativesMatch ==
    AltsBelowKey \/ AltsAtTop
       => /\ resp.result = Ok <=> \E i \in DOMAIN AltBranches : Ok \in BranchResults(i)
          /\ resp.result # Ok
                => /\ resp.result.why = "no alternative matches"
                   /\ resp.result.path = AltContext
                   /\ AltBranches # <<>> => resp.result.cause \in BranchResults(1)

\* Two branches that both fail were checked, below a key or at the top, and
\* the diagnostic carries the first branch's error, which differs from the
\* second's.
AlternativesMatchWitness ==
    /\ AltsBelowKey \/ AltsAtTop
    /\ Len(AltBranches) = 2
    /\ resp.result # Ok
    /\ resp.result.cause \in BranchResults(1)
    /\ resp.result.cause \notin BranchResults(2)


\* compileAttributeConstraints has run on the constraint tree of the request.
Compiled == req.op = "Compile" /\ resp.type = "return"

\* A list appears directly as an element of a list, somewhere in x.
RECURSIVE ListInList(_)
ListInList(x) ==
    IF "list" \in DOMAIN x
    THEN \E i \in DOMAIN x.list : "list" \in DOMAIN x.list[i] \/ ListInList(x.list[i])
    ELSE IF "map" \in DOMAIN x
    THEN \E k \in DOMAIN x.map : ListInList(x.map[k])
    ELSE FALSE

\* A regexp string with no map key above it: x itself, or an element of a
\* list that has no map key above it.
RECURSIVE BareString(_)
BareString(x) ==
    IF "list" \in DOMAIN x THEN \E i \in DOMAIN x.list : BareString(x.list[i])
    ELSE "str" \in DOMAIN x

\* A value that is no map, list or string, somewhere in x.
RECURSIVE NoConstraint(_)
NoConstraint(x) ==
    IF "list" \in DOMAIN x THEN \E i \in DOMAIN x.list : NoConstraint(x.list[i])
    ELSE IF "map" \in DOMAIN x THEN \E k \in DOMAIN x.map : NoConstraint(x.map[k])
    ELSE "str" \notin DOMAIN x

\* C23: compileAttributeConstraints returns an error and no matcher for every
\* tree with a list directly inside a list and for every tree with a regexp
\* string that has no map key above it; these and a value that is no
\* constraint are the only trees it rejects, so a list below a map key
\* inside an alternative is accepted.
CompileRejects ==
    Compiled
       => /\ ListInList(req.constraints) \/ BareString(req.constraints)
                => resp.result.err # "" /\ resp.result.constraints = Nil
          /\ resp.result.err = ""
                <=> ~(ListInList(req.constraints) \/ BareString(req.constraints)
                        \/ NoConstraint(req.constraints))
          /\ resp.result.err = "" <=> resp.result.constraints # Nil
          /\ req.constraints = List(<<Map("k" :> List(<<Str("usb")>>))>>)
                => resp.result.err = ""

\* The compiler has rejected a list directly inside a list that sits below a
\* map key, in a tree with no other flaw.
CompileRejectsWitness ==
    /\ Compiled
    /\ req.constraints = Map("k" :> List(<<List(<<Str("usb")>>)>>))
    /\ resp.result.err # ""
    /\ resp.result.constraints = Nil


\* Check has run twice on the same compiled constraints and attributes.
CheckedTwice == Checked /\ "again" \in DOMAIN resp

\* C24: Check changes neither the constraints nor the attributes it is
\* given, and two calls on the same compiled constraints and equal
\* attributes return the same result: both succeed, or both fail with the
\* same diagnostic.
CheckIsPure ==
    /\ [][req.op = "Check" => req' = req]_vars
    /\ [](CheckedTwice => resp.again = resp.result)

\* Two calls on {bus: usb, speed: usb} and {bus: pci, speed: pci} have
\* failed with different diagnostics, one naming bus and one naming speed.
CheckDiagnosticsDiffer ==
    /\ CheckedTwice
    /\ req.constraints = Map(("bus" :> Str("usb")) @@ ("speed" :> Str("usb")))
    /\ req.attrs = ("bus" :> Str("pci")) @@ ("speed" :> Str("pci"))
    /\ resp.result.path = <<"bus">>
    /\ resp.again.path = <<"speed">>


\* Check has run on a regexp or map constraint under the key l and a list.
ListChecked ==
    /\ NodeChecked
    /\ DOMAIN req.constraints.map = {"l"}
    /\ "list" \in DOMAIN req.attrs["l"]

\* Value v satisfies constraint c: element by element when v is a list, by
\* the constraint's own match when it is not.
RECURSIVE Satisfies(_, _)
Satisfies(c, v) ==
    IF "list" \in DOMAIN v
    THEN \A i \in DOMAIN v.list : Satisfies(c, v.list[i])
    ELSE Ok \in match(<<>>, compileAttrMatcher(TRUE, FALSE, c), v)

\* C30: a list-valued attribute satisfies a regexp or map constraint exactly
\* if every element satisfies it, nested lists element by element in turn;
\* the diagnostic of a failure is that of the first failing element and its
\* path carries the element's index after the key; an empty list satisfies
\* the constraint.
ListElementwise ==
    ListChecked
       => LET c == req.constraints.map["l"]
              l == req.attrs["l"].list
              failing == {i \in DOMAIN l : ~Satisfies(c, l[i])}
          IN /\ resp.result = Ok <=> failing = {}
             /\ l = <<>> => resp.result = Ok
             /\ resp.result # Ok
                   => \E i \in failing :
                         /\ \A j \in failing : i <= j
                         /\ Len(resp.result.path) >= 2
                         /\ SubSeq(resp.result.path, 1, 2) = <<"l", Itoa(i - 1)>>
                         /\ resp.result
                               \in match(<<"l", Itoa(i - 1)>>,
                                         compileAttrMatcher(TRUE, FALSE, c), l[i])

\* The regexp usb was checked against [usb, [usb, pci]] and failed at
\* element 1 of element 1.
ListElementwiseWitness ==
    /\ ListChecked
    /\ req.constraints.map["l"] = Str("usb")
    /\ req.attrs["l"] = List(<<Str("usb"), List(<<Str("usb"), Str("pci")>>)>>)
    /\ resp.result # Ok
    /\ resp.result.path = <<"l", "1", "1">>


\* The assembler has run on the assertion of the request.
AssembleDone == req.op = "Assemble" /\ resp.type = "return"

\* C25: every model or serial assertion that assembles has authority-id equal
\* to brand-id; assembling one whose authority-id differs from its brand-id
\* fails with an error and yields no assertion.
AuthorityIsBrand ==
    AssembleDone /\ req.type \in {"model", "serial"}
       => /\ resp.result.err = ""
                => /\ "brand-id" \in DOMAIN resp.result.assertion.base.headers
                   /\ resp.result.assertion.base.headers["brand-id"]
                         = resp.result.assertion.base.headers["authority-id"]
                   /\ HeaderString(resp.result.assertion.base, "brand-id")
                         = AuthorityID(resp.result.assertion.base)
          /\ HeaderString(req, "brand-id") # AuthorityID(req)
                => resp.result.err # "" /\ resp.result.assertion = Nil
          /\ resp.result.err # "" <=> resp.result.assertion = Nil

\* A serial whose only flaw is a brand-id that differs from its authority-id
\* has been refused.
AuthorityIsBrandWitness ==
    /\ AssembleDone
    /\ req.type = "serial"
    /\ req.headers = ("authority-id" :> Str("canonical")) @@ ("brand-id" :> Str("other"))
                        @@ ("device-key" :> Str("pubkey1"))
                        @@ ("device-key-sha3-384" :> Str("sha3-of-pubkey1"))
                        @@ ("timestamp" :> Str("2016-01-02T15:04:05Z"))
    /\ resp.result.err = "authority-id and brand-id must match"
    /\ resp.result.assertion = Nil

\* C26: a serial assembles only if the id computed from its device-key equals
\* its device-key-sha3-384 header, and a serial-request only if the id
\* computed from its device-key equals the id of the key that signed it; a
\* mismatch fails assembly with an error and yields no assertion.
KeyAgreement ==
    AssembleDone /\ req.type \in {"serial", "serial-request"}
       => LET keyID == IF req.type = "serial"
                       THEN HeaderString(req, "device-key-sha3-384")
                       ELSE SignKeyID(req)
              encoded == HeaderString(req, "device-key")
          IN /\ resp.result.err = ""
                   => /\ encoded \in DOMAIN KeyIDs
                      /\ KeyIDs[encoded] = keyID
                      /\ resp.result.assertion.pubKey = encoded
             /\ encoded \in DOMAIN KeyIDs /\ KeyIDs[encoded] # keyID
                   => resp.result.err # "" /\ resp.result.assertion = Nil

\* A serial-request whose only flaw is a device-key other than the key that
\* signed it has been refused.
KeyAgreementWitness ==
    /\ AssembleDone
    /\ req.type = "serial-request"
    /\ req.signKeyID = "sha3-of-pubkey2"
    /\ req.headers = ("brand-id" :> Str("canonical")) @@ ("model" :> Str("x"))
                        @@ ("request-id" :> Str("x")) @@ ("device-key" :> Str("pubkey1"))
    /\ resp.result.err = "device key does not match included signing key id"
    /\ resp.result.assertion = Nil


\* C27: on this platform, whatever its force-devmode setting, modeFlags
\* returns for no devmode and jailmode inputs a flag set with both DevMode
\* and JailMode, and returns no flags whenever it returns an error; no
\* builder a handler has called was handed both flags.
ModeFlagsExclusive ==
    /\ \A devMode \in BOOLEAN, jailMode \in BOOLEAN :
          LET r == modeFlags(devMode, jailMode) IN
          /\ ~({"DevMode", "JailMode"} \subseteq r.flags)
          /\ r.err # noErr => r.flags = {}
    /\ \A call \in resp.calls : ~({"DevMode", "JailMode"} \subseteq call.flags)

\* A handler has called a builder with JailMode alone, for a jailmode
\* request on a platform that does not force devmode.
ModeFlagsExclusiveWitness ==
    /\ req.jailmode
    /\ ~req.devmode
    /\ ~forceDevMode
    /\ \E call \in resp.calls : call.flags = {"JailMode"}


\* C28: when a handler returns an async response, the Change it names is
\* Ready already, or EnsureBefore(0) was called in the same locked section
\* and its wake-up is pending while the handler still holds the state lock.
AsyncReadyOrEnsured ==
    [][(resp = NoResp /\ resp'.type = "async")
          => \/ StatusReady(ChangeStatusIn(changes', tasks', resp'.change))
             \/ /\ Call("EnsureBefore") \in resp'.calls
                /\ ensureBefore'
                /\ lock' = "api"]_vars

\* A multi-snap operation with nothing to do was answered async with a
\* Change that is Done, and no Ensure was asked for.
AsyncReadyOrEnsuredWitness ==
    /\ req.op = "snapsOp"
    /\ resp.type = "async"
    /\ ChangeStatus(resp.change) = "Done"
    /\ TasksOf(resp.change) = {}
    /\ Call("EnsureBefore") \notin resp.calls


\* The handlers that carry out an operation on snaps or interfaces.
OperationHandlers == {"postSnap", "snapsOp", "postSnaps", "changeInterfaces"}

\* C29: when the handler of an operation request returns an error response,
\* the state holds the Changes it held before, each with its tasks as they
\* were; the handler has created no Change, names none, has not asked for
\* the Ensure loop, and, when the lookup of ubuntu-core failed with an error
\* other than no-state, has called no install builder.
FailedOperationChangesNothing ==
    [][(resp = NoResp /\ resp'.type = "error" /\ req'.op \in OperationHandlers)
          => /\ changes' = changes
             /\ \A t \in TaskIds : tasks'[t] = tasks[t]
             /\ \A t \in DOMAIN tasks' : tasks'[t].chg \in ChangeIds
             /\ resp'.change = 0
             /\ \A call \in resp'.calls : call.fn \notin {"NewChange", "EnsureBefore"}
             /\ ensureBefore' = ensureBefore
             /\ Get("error") \in resp'.calls
                   => \A call \in resp'.calls :
                         call.fn \notin {"Install", "InstallPath", "TryPath"}]_vars

\* With a Change in the state, an install was refused because the lookup of
\* ubuntu-core failed.
FailedOperationChangesNothingWitness ==
    /\ req.op = "postSnap"
    /\ req.action = "install"
    /\ resp.type = "error"
    /\ Get("error") \in resp.calls
    /\ Len(changes) = MaxChanges

====
